---------------------------- MODULE Spec2Model ----------------------------
(***************************************************************************)
(* Lazy Cat popup: the wake-detection and command-dispatch pipeline of     *)
(* src/popup.js (src/unnamed/part_000 is an earlier revision of the same   *)
(* file; its wake logic is identical).                                     *)
(*                                                                         *)
(* Text is modelled as a sequence of one-character strings, so that        *)
(* indexing, slicing, case folding and trimming are computed, not assumed. *)
(* JavaScript indices are 0-based; TLA+ sequences are 1-based, and every   *)
(* operator below that takes or returns an index uses the JavaScript one.  *)
(***************************************************************************)
EXTENDS Integers, Sequences, FiniteSets, TLC

\* ------------------------------------------------------------------ bounds
\* Highest timer id the host hands out (setTimeout ids are 1, 2, 3, ...).
MaxTimers == 2
\* Most calls of aiInterpret in one behaviour.
MaxDispatch == 2
\* Longest string given to editDistanceAtMost when it is called on its own.
MaxLen == 3
\* Largest maxD given to editDistanceAtMost when it is called on its own.
MaxK == 2

\* -------------------------------------------------------- program constants
\* setTimeout(..., 5000): the arm-timeout, counted in ticks of one second.
WakeTimeoutSecs == 5
\* lower.slice(0, 40): the prefix the fuzzy path searches.
FuzzyWindow == 40

\* ------------------------------------------------------------ string helpers
MinOf(S) == CHOOSE x \in S : \A y \in S : x <= y
MaxOf(S) == CHOOSE x \in S : \A y \in S : x >= y
Min2(a, b) == IF a <= b THEN a ELSE b
Max2(a, b) == IF a >= b THEN a ELSE b
Abs(x) == IF x < 0 THEN 0 - x ELSE x

\* F applied to the value of e: e is evaluated once and F receives its value.
With(e, F(_)) == CHOOSE y \in {F(x) : x \in {e}} : TRUE

\* String.prototype.toLowerCase, on the letters the inputs use.
UpperToLower ==
  ("A" :> "a") @@ ("B" :> "b") @@ ("C" :> "c") @@ ("D" :> "d") @@ ("E" :> "e") @@
  ("F" :> "f") @@ ("G" :> "g") @@ ("H" :> "h") @@ ("I" :> "i") @@ ("J" :> "j") @@
  ("K" :> "k") @@ ("L" :> "l") @@ ("M" :> "m") @@ ("N" :> "n") @@ ("O" :> "o") @@
  ("P" :> "p") @@ ("Q" :> "q") @@ ("R" :> "r") @@ ("S" :> "s") @@ ("T" :> "t") @@
  ("U" :> "u") @@ ("V" :> "v") @@ ("W" :> "w") @@ ("X" :> "x") @@ ("Y" :> "y") @@
  ("Z" :> "z")

LowerChar(c) == IF c \in DOMAIN UpperToLower THEN UpperToLower[c] ELSE c

\* (<<>> \o f makes the result a sequence value, not a function expression)
toLowerCase(text) == <<>> \o [i \in 1..Len(text) |-> LowerChar(text[i])]

IsSpace(c) == c \in {" ", "\t", "\n"}

\* String.prototype.trim
trim(text) ==
  LET keep == {i \in 1..Len(text) : ~IsSpace(text[i])}
  IN  IF keep = {} THEN <<>> ELSE SubSeq(text, MinOf(keep), MaxOf(keep))

\* String.prototype.slice(from, to) for 0 <= from, 0 <= to
slice(text, from, to) ==
  SubSeq(text, Min2(from, Len(text)) + 1, Min2(to, Len(text)))

\* String.prototype.indexOf(v): the first 0-based position of v, or -1
indexOf(text, v) ==
  LET hits == {i \in 0..(Len(text) - Len(v)) : SubSeq(text, i + 1, i + Len(v)) = v}
  IN  IF hits = {} THEN -1 ELSE MinOf(hits)

\* ------------------------------------------------------------ wake detection
\* A variant of the list without the entry "lazy cut".
BASE_WAKE_VARIANTS_NoLazyCut == <<
  <<"h", "e", "y", " ", "c", "a", "t">>,
  <<"l", "a", "z", "y", " ", "c", "a", "t">>,
  <<"h", "e", " ", "g", "o", "t">>,
  <<"h", "e", "y", " ", "c", "u", "t">>,
  <<"h", "e", "y", " ", "c", "a", "p">>,
  <<"h", "e", "y", " ", "c", "a", "d">>,
  <<"h", "e", "y", " ", "k", "i", "t">>,
  <<"h", "e", "y", " ", "k", "a", "t", "e">>,
  <<"h", "e", "y", " ", "c", "a", "t", "s">> >>

BASE_WAKE_VARIANTS == <<
  <<"h", "e", "y", " ", "c", "a", "t">>,
  <<"l", "a", "z", "y", " ", "c", "a", "t">>,
  <<"h", "e", " ", "g", "o", "t">>,
  <<"h", "e", "y", " ", "c", "u", "t">>,
  <<"l", "a", "z", "y", " ", "c", "u", "t">>,
  <<"h", "e", "y", " ", "c", "a", "p">>,
  <<"h", "e", "y", " ", "c", "a", "d">>,
  <<"h", "e", "y", " ", "k", "i", "t">>,
  <<"h", "e", "y", " ", "k", "a", "t", "e">>,
  <<"h", "e", "y", " ", "c", "a", "t", "s">> >>

\* A variant of the inner loop that leaves out the deletion term dp[j] + 1.
RECURSIVE EditRow_NoDeletion(_, _, _, _, _, _)
EditRow_NoDeletion(s, t, i, old, j, acc) ==
  IF j > Len(t) THEN acc
  ELSE LET sub  == old[j] + (IF s[i] = t[j] THEN 0 ELSE 1)
           cell == Min2(acc[j] + 1, sub)
       IN  EditRow_NoDeletion(s, t, i, old, j + 1, Append(acc, cell))

\* One pass of the inner loop (j = 1..n) of editDistanceAtMost for row i:
\* old is the row of i-1 (old[j+1] is dp[j]); the result is the row of i.
RECURSIVE EditRow(_, _, _, _, _, _)
EditRow(s, t, i, old, j, acc) ==
  IF j > Len(t) THEN acc
  ELSE LET sub  == old[j] + (IF s[i] = t[j] THEN 0 ELSE 1)
           cell == Min2(Min2(old[j + 1] + 1, acc[j] + 1), sub)
       IN  EditRow(s, t, i, old, j + 1, Append(acc, cell))

\* The outer loop (i = 1..m) with the early exit on minRow > maxD.
RECURSIVE EditRows(_, _, _, _, _)
EditRows(s, t, maxD, i, dp) ==
  IF i > Len(s) THEN dp[Len(t) + 1]
  ELSE LET row    == EditRow(s, t, i, dp, 1, <<i>>)
           minRow == MinOf({row[k] : k \in 1..Len(row)})
       IN  IF minRow > maxD THEN maxD + 1
           ELSE EditRows(s, t, maxD, i + 1, row)

\* A variant of editDistanceAtMost without the test of the lengths.
editDistanceAtMost_NoLengthTest(s, t, maxD) ==
  EditRows(s, t, maxD, 1, [j \in 1..(Len(t) + 1) |-> j - 1])

editDistanceAtMost(s, t, maxD) ==
  IF Abs(Len(s) - Len(t)) > maxD THEN maxD + 1
  ELSE EditRows(s, t, maxD, 1, [j \in 1..(Len(t) + 1) |-> j - 1])

\* The rows of dp that a call of editDistanceAtMost fills in before it returns:
\* the row of i = 0 (popup.js 44-45) and one per pass of the outer loop.
RECURSIVE EditRowsFilled(_, _, _, _, _)
EditRowsFilled(s, t, maxD, i, dp) ==
  IF i > Len(s) THEN 0
  ELSE LET row    == EditRow(s, t, i, dp, 1, <<i>>)
           minRow == MinOf({row[k] : k \in 1..Len(row)})
       IN  IF minRow > maxD THEN 1
           ELSE 1 + EditRowsFilled(s, t, maxD, i + 1, row)

editDistanceRows(s, t, maxD) ==
  IF Abs(Len(s) - Len(t)) > maxD THEN 0
  ELSE 1 + EditRowsFilled(s, t, maxD, 1, [j \in 1..(Len(t) + 1) |-> j - 1])

\* null, as wakeMatches returns it
NoMatch == [found |-> FALSE, index |-> -1, match |-> <<>>]

\* A variant of the fast path that replaces the best hit on idx <= best.index.
RECURSIVE ExactScan_LastDeclared(_, _, _)
ExactScan_LastDeclared(lower, k, best) ==
  IF k > Len(BASE_WAKE_VARIANTS) THEN best
  ELSE LET v   == BASE_WAKE_VARIANTS[k]
           idx == indexOf(lower, v)
       IN  IF idx # -1 /\ (~best.found \/ idx <= best.index)
           THEN ExactScan_LastDeclared(lower, k + 1,
                                       [found |-> TRUE, index |-> idx, match |-> v])
           ELSE ExactScan_LastDeclared(lower, k + 1, best)

\* The fast path: the loop over BASE_WAKE_VARIANTS that keeps the best hit.
RECURSIVE ExactScan(_, _, _)
ExactScan(lower, k, best) ==
  IF k > Len(BASE_WAKE_VARIANTS) THEN best
  ELSE LET v   == BASE_WAKE_VARIANTS[k]
           idx == indexOf(lower, v)
       IN  IF idx # -1 /\ (~best.found \/ idx < best.index)
           THEN ExactScan(lower, k + 1, [found |-> TRUE, index |-> idx, match |-> v])
           ELSE ExactScan(lower, k + 1, best)

\* The fuzzy path: variants in declared order (k), and for each the start
\* positions i = 0..max(0, length - v.length) left to right; the first
\* (variant, position) whose window is within maxD of the variant.
RECURSIVE FuzzyScan(_, _, _)
FuzzyScan(windowText, maxD, k) ==
  IF k > Len(BASE_WAKE_VARIANTS) THEN NoMatch
  ELSE LET v    == BASE_WAKE_VARIANTS[k]
           hits == {i \in 0..Max2(0, Len(windowText) - Len(v)) :
                      editDistanceAtMost(slice(windowText, i, i + Len(v)), v, maxD) <= maxD}
       IN  IF hits # {}
           THEN [found |-> TRUE, index |-> MinOf(hits), match |-> v]
           ELSE FuzzyScan(windowText, maxD, k + 1)

\* A variant of maxD with the bounds of strict and loose exchanged.
MaxDistance_Reversed(sensitivity) ==
  IF sensitivity = 0 THEN 3 ELSE IF sensitivity = 1 THEN 2 ELSE 1

\* A variant of maxD that does not look at the sensitivity.
MaxDistance_Default(sensitivity) == 2

MaxDistance(sensitivity) ==
  IF sensitivity = 0 THEN 1 ELSE IF sensitivity = 1 THEN 2 ELSE 3

wakeMatches(text, sensitivity) ==
  With(toLowerCase(text), LAMBDA lower :
    With(ExactScan(lower, 1, NoMatch), LAMBDA best :
      IF best.found THEN best
      ELSE With(slice(lower, 0, FuzzyWindow), LAMBDA windowText :
             FuzzyScan(windowText, MaxDistance(sensitivity), 1))))

\* The return statement a call of wakeMatches leaves by: the one of the fast
\* path (popup.js:74), of the fuzzy path (82) or the last one (85).
wakeMatchesPath(text, sensitivity) ==
  With(toLowerCase(text), LAMBDA lower :
    IF ExactScan(lower, 1, NoMatch).found THEN "exact"
    ELSE IF FuzzyScan(slice(lower, 0, FuzzyWindow), MaxDistance(sensitivity), 1).found
         THEN "fuzzy"
         ELSE "none")

\* null, as stripAfterWake returns it: distinct from the empty remainder
NoRemainder == [found |-> FALSE, text |-> <<>>]

\* A variant of stripAfterWake that cuts at the start of the match, not its end.
stripAfterWake_FromIndex(text, sensitivity) ==
  With(wakeMatches(text, sensitivity), LAMBDA info :
    IF ~info.found THEN NoRemainder
    ELSE [found |-> TRUE, text |-> trim(slice(text, info.index, Len(text)))])

\* A variant of stripAfterWake that returns null for an empty remainder, too.
stripAfterWake_EmptyIsNull(text, sensitivity) ==
  With(wakeMatches(text, sensitivity), LAMBDA info :
    IF ~info.found THEN NoRemainder
    ELSE With(trim(slice(text, info.index + Len(info.match), Len(text))), LAMBDA rest :
           IF rest = <<>> THEN NoRemainder ELSE [found |-> TRUE, text |-> rest]))

stripAfterWake(text, sensitivity) ==
  With(wakeMatches(text, sensitivity), LAMBDA info :
    IF ~info.found THEN NoRemainder
    ELSE [found |-> TRUE,
          text  |-> trim(slice(text, info.index + Len(info.match), Len(text)))])

\* ------------------------------------------------------------------- inputs
\* The ASR results the model delivers: each is the list of alternative
\* transcripts of one result, in the engine's ranked order.
Results == <<
  \* 1: wake phrase followed by a command, in both alternatives
  << <<"h", "e", "y", " ", "c", "a", "t", " ", "o", "p", "e", "n", " ", "t", "h", "e", " ", "s", "i", "t", "e">>,
     <<"h", "e", "y", " ", "c", "u", "t", " ", "o", "p", "e", "n", " ", "t", "h", "e", " ", "s", "i", "t", "e">> >>,
  \* 2: the bare wake word
  << <<"h", "e", "y", " ", "c", "a", "t">> >>,
  \* 3: a command without wake phrase
  << <<"s", "c", "r", "o", "l", "l", " ", "d", "o", "w", "n", " ", "p", "l", "e", "a", "s", "e">> >>,
  \* 4: wake phrase and command in upper case, with surrounding blanks
  << <<" ", "H", "e", "y", " ", "C", "a", "t", " ", " ", "O", "p", "e", "n", " ", "T", "h", "e", " ", "S", "i", "t", "e", " ">> >>,
  \* 5: a fuzzy bare wake word at Default and Loose, no match at Strict
  << <<"m", "y", " ", "c", "a", "t">> >>,
  \* 6: only blank alternatives
  << <<" ", " ">>, <<>> >>,
  \* 7: the wake word only in the second-ranked alternative
  << <<"s", "t", "o", "p">>, <<"h", "e", "y", " ", "k", "i", "t">> >> >>

ResultIds == 1..Len(Results)

\* The values of the wake-sensitivity control: 0 = strict, 1 = default, 2 = loose.
Sensitivities == {0, 1, 2}

\* ------------------------------------------------------ hypothesis selection
\* for (i...) { t = (res[i].transcript || "").trim(); if (t) alts.push(t); }
RECURSIVE CollectAlts(_, _)
CollectAlts(res, i) ==
  IF i > Len(res) THEN <<>>
  ELSE LET t == trim(res[i])
       IN  IF t # <<>> THEN <<t>> \o CollectAlts(res, i + 1)
           ELSE CollectAlts(res, i + 1)

\* for (const t of alts) if (wakeMatches(t.toLowerCase(), sens)) { chosen = t; break; }
RECURSIVE FirstWithWake(_, _, _)
FirstWithWake(alts, sens, i) ==
  IF i > Len(alts) THEN <<>>
  ELSE IF wakeMatches(toLowerCase(alts[i]), sens).found THEN alts[i]
       ELSE FirstWithWake(alts, sens, i + 1)

\* A variant of the fallback for a sort that is not stable: of the longest
\* alternatives the last comes first.
LongestFirst_LastOfTies(alts) ==
  LET top == MaxOf({Len(alts[i]) : i \in 1..Len(alts)})
  IN  alts[MaxOf({i \in 1..Len(alts) : Len(alts[i]) = top})]

\* alts.slice().sort((a, b) => b.length - a.length)[0]: the sort is stable, so
\* the first of the longest alternatives comes first.
LongestFirst(alts) ==
  LET top == MaxOf({Len(alts[i]) : i \in 1..Len(alts)})
  IN  alts[MinOf({i \in 1..Len(alts) : Len(alts[i]) = top})]

chooseAlternative(alts, sens) ==
  LET hit == FirstWithWake(alts, sens, 1)
  IN  IF hit # <<>> THEN hit ELSE LongestFirst(alts)

\* What the handler of a final result computes before it touches the state:
\* the non-blank alternatives, the chosen one and stripAfterWake of its lower case.
Hear(res, sens) ==
  With(CollectAlts(res, 1), LAMBDA alts :
    IF alts = <<>>
    THEN [alts |-> alts, chosen |-> <<>>, afterWake |-> NoRemainder]
    ELSE With(chooseAlternative(alts, sens), LAMBDA chosen :
           With(toLowerCase(chosen), LAMBDA lower :
             [alts |-> alts, chosen |-> chosen,
              afterWake |-> stripAfterWake(lower, sens)])))

\* Hear on every input of the model, as a table.
Heard == [r \in ResultIds, s \in Sensitivities |-> Hear(Results[r], s)]

\* -------------------------------------------------------------------- state
VARIABLES
  listening,    \* let listening (popup.js:7)
  recState,     \* the SpeechRecognition session behind `recognition`:
                \* "none" (not yet created), "inactive", "active", "stopping"
  wakeActive,   \* let wakeActive (popup.js:9): TRUE is Armed, FALSE is Idle
  wakeTimer,    \* let wakeTimer (popup.js:10): a timer id, or NoTimer for null
  timers,       \* the host's pending timeouts: id |-> seconds left
  nextTimerId,  \* the id the next setTimeout returns
  sens,         \* localStorage "lc_wake_sens"
  dispatched,   \* the utterances aiInterpret was called with, in call order
  inflight,     \* the calls of aiInterpret that have not resolved (indices)
  last,         \* the handler that ran last: what it was given and the calls it made
  probe         \* a call of one of the program's functions: its name, its
                \* arguments and, once it has returned, its result

vars == <<listening, recState, wakeActive, wakeTimer, timers, nextTimerId,
          sens, dispatched, inflight, last, probe>>

\* No function is being called on its own.
NoProbe == [fn |-> "none", done |-> TRUE]

\* wakeTimer = null
NoTimer == 0

\* The program state as one value a handler transforms, with the trace of the
\* calls and assignments the handler makes (ops) and whether it threw.
Machine ==
  [listening |-> listening, recState |-> recState, wakeActive |-> wakeActive,
   wakeTimer |-> wakeTimer, timers |-> timers, nextTimerId |-> nextTimerId,
   dispatched |-> dispatched, inflight |-> inflight,
   ops |-> <<>>, thrown |-> FALSE]

Log(m, what) == [m EXCEPT !.ops = Append(@, what)]

Without(f, k) == [x \in (DOMAIN f) \ {k} |-> f[x]]

\* A variant of clearWakeTimer that forgets the handle without clearTimeout.
clearWakeTimer_HandleOnly(m) ==
  [Log(m, "clearWakeTimer") EXCEPT !.wakeTimer = NoTimer]

\* function clearWakeTimer() { if (wakeTimer) { clearTimeout(wakeTimer); wakeTimer = null; } }
clearWakeTimer(m) ==
  LET c == Log(m, "clearWakeTimer")
  IN  IF c.wakeTimer # NoTimer
      THEN [Log(c, "clearTimeout") EXCEPT !.timers = Without(@, c.wakeTimer),
                                          !.wakeTimer = NoTimer]
      ELSE c

\* A variant of armWakeTimeout that starts a timeout without clearing the old one.
armWakeTimeout_NoClear(m) ==
  LET c == Log(m, "armWakeTimeout")
  IN  [Log(c, "setTimeout") EXCEPT !.wakeTimer = c.nextTimerId,
                                   !.timers = (c.nextTimerId :> WakeTimeoutSecs) @@ @,
                                   !.nextTimerId = c.nextTimerId + 1]

\* function armWakeTimeout() { clearWakeTimer(); wakeTimer = setTimeout(..., 5000); }
armWakeTimeout(m) ==
  LET c  == clearWakeTimer(Log(m, "armWakeTimeout"))
  IN  [Log(c, "setTimeout") EXCEPT !.wakeTimer = c.nextTimerId,
                                   !.timers = (c.nextTimerId :> WakeTimeoutSecs) @@ @,
                                   !.nextTimerId = c.nextTimerId + 1]

\* A variant of the timeout callback that also forgets the handle.
wakeTimeoutCallback_ClearsHandle(m) ==
  [Log(Log(m, "wakeActive=false"), "setStatus:timedOut")
     EXCEPT !.wakeActive = FALSE, !.wakeTimer = NoTimer]

\* A variant of the timeout callback that only sets the status text.
wakeTimeoutCallback_StatusOnly(m) == Log(m, "setStatus:timedOut")

\* The callback armWakeTimeout hands to setTimeout.
wakeTimeoutCallback(m) ==
  [Log(Log(m, "wakeActive=false"), "setStatus:timedOut") EXCEPT !.wakeActive = FALSE]

setWakeActive(m, b) ==
  [Log(m, IF b THEN "wakeActive=true" ELSE "wakeActive=false") EXCEPT !.wakeActive = b]

\* A variant of the call that hands the command to the interpreter twice.
aiInterpretCall_Twice(m, commandText) ==
  [Log(m, "aiInterpret") EXCEPT
     !.dispatched = Append(Append(@, commandText), commandText),
     !.inflight = @ \cup {Len(m.dispatched) + 1, Len(m.dispatched) + 2}]

\* aiInterpret(commandText), called without await: the call returns at its
\* first await and the rest runs later (InterpretDone).
aiInterpretCall(m, commandText) ==
  [Log(m, "aiInterpret") EXCEPT !.dispatched = Append(@, commandText),
                                !.inflight = @ \cup {Len(m.dispatched) + 1}]

\* recognition.stop(): ends an active session (onend follows); otherwise nothing.
recognitionStop(m) ==
  [Log(m, "recognition.stop") EXCEPT
     !.recState = IF @ = "active" THEN "stopping" ELSE @]

\* recognition.start(): throws InvalidStateError unless the session has ended.
recognitionStart(m) ==
  IF m.recState = "inactive"
  THEN [Log(m, "recognition.start") EXCEPT !.recState = "active"]
  ELSE [Log(Log(m, "recognition.start"), "throw:InvalidStateError")
          EXCEPT !.thrown = TRUE]

\* A variant of the dispatching block without the call of clearWakeTimer.
dispatchCommand_NoCancel(m, utterance) ==
  LET m1 == Log(m, "appendTranscript")
      m2 == aiInterpretCall(m1, utterance)
      m3 == setWakeActive(m2, FALSE)
  IN  recognitionStop(m3)

\* The block both dispatching branches run (popup.js 395-399 and 410-414):
\* appendTranscript; aiInterpret; wakeActive = false; clearWakeTimer(); recognition.stop()
dispatchCommand(m, utterance) ==
  LET m1 == Log(m, "appendTranscript")
      m2 == aiInterpretCall(m1, utterance)
      m3 == setWakeActive(m2, FALSE)
      m4 == clearWakeTimer(m3)
  IN  recognitionStop(m4)

\* A variant of branch A without the test of afterWake for emptiness.
onresultWake_NoEmptyTest(m, afterWake) == dispatchCommand(m, afterWake)

\* A) wake phrase present (afterWake !== null): a command follows it, or it is bare.
onresultWake(m, afterWake) ==
  IF afterWake # <<>>
  THEN dispatchCommand(m, afterWake)
  ELSE LET m1 == Log(m, "setStatus:armed")
           m2 == setWakeActive(m1, TRUE)
       IN  armWakeTimeout(m2)

\* A variant of branch B that does not look at wakeActive.
onresultNoWake_Always(m, chosen) == dispatchCommand(m, chosen)

\* B) already in wake window: the chosen text is the command; C) ignore.
onresultNoWake(m, chosen) ==
  IF m.wakeActive
  THEN dispatchCommand(m, chosen)
  ELSE recognitionStop(m)

\* A variant of the handler that also processes interim results.
onresult_Interim(m, res, isFinal, sensitivity) ==
  LET h == Heard[CHOOSE r \in ResultIds : Results[r] = res, sensitivity]
  IN  IF h.alts = <<>> THEN m
      ELSE IF h.afterWake.found
           THEN onresultWake(m, h.afterWake.text)
           ELSE onresultNoWake(m, h.chosen)

\* recognition.onresult, for a result with alternatives res.
onresult(m, res, isFinal, sensitivity) ==
  IF ~isFinal THEN m
  ELSE
    LET h == IF \E r \in ResultIds : Results[r] = res
             THEN Heard[CHOOSE r \in ResultIds : Results[r] = res, sensitivity]
             ELSE Hear(res, sensitivity)
    IN  IF h.alts = <<>> THEN m
        ELSE IF h.afterWake.found
             THEN onresultWake(m, h.afterWake.text)
             ELSE onresultNoWake(m, h.chosen)

\* recognition.onend
onend(m) ==
  IF m.listening THEN recognitionStart(m) ELSE Log(m, "setStatus:stopped")

\* A variant of the click handler whose stopping branch also leaves the wake
\* window: wakeActive = false and clearWakeTimer().
onclick_ResetsWake(m) ==
  LET m0 == IF m.recState = "none"
            THEN [Log(m, "initRecognition") EXCEPT !.recState = "inactive"]
            ELSE m
  IN  IF ~m0.listening
      THEN recognitionStart([Log(m0, "listening=true") EXCEPT !.listening = TRUE])
      ELSE recognitionStop(clearWakeTimer(setWakeActive(
             [Log(m0, "listening=false") EXCEPT !.listening = FALSE], FALSE)))

\* The click handler of btnToggle (SpeechRecognition is supported).
onclick(m) ==
  LET m0 == IF m.recState = "none"
            THEN [Log(m, "initRecognition") EXCEPT !.recState = "inactive"]
            ELSE m
  IN  IF ~m0.listening
      THEN recognitionStart([Log(m0, "listening=true") EXCEPT !.listening = TRUE])
      ELSE recognitionStop([Log(m0, "listening=false") EXCEPT !.listening = FALSE])

\* A pending timeout has run down: its callback is due.
TimerDue == \E id \in DOMAIN timers : timers[id] = 0

\* A handler has run to completion: its result becomes the state.
Commit(m, ev, isFinal, id) ==
  /\ m.nextTimerId <= MaxTimers + 1
  /\ Len(m.dispatched) <= MaxDispatch
  /\ listening' = m.listening
  /\ recState' = m.recState
  /\ wakeActive' = m.wakeActive
  /\ wakeTimer' = m.wakeTimer
  /\ timers' = m.timers
  /\ nextTimerId' = m.nextTimerId
  /\ dispatched' = m.dispatched
  /\ inflight' = m.inflight
  /\ last' = [ev |-> ev, final |-> isFinal, id |-> id,
              wasActive |-> wakeActive, wasDue |-> TimerDue, ops |-> m.ops]
  /\ UNCHANGED probe

Init ==
  /\ listening = FALSE
  /\ recState = "none"
  /\ wakeActive = FALSE
  /\ wakeTimer = NoTimer
  /\ timers = <<>>
  /\ nextTimerId = 1
  /\ sens \in Sensitivities
  /\ dispatched = <<>>
  /\ inflight = {}
  /\ last = [ev |-> "load", final |-> FALSE, id |-> 0,
             wasActive |-> FALSE, wasDue |-> FALSE, ops |-> <<>>]
  /\ probe = NoProbe

\* The user clicks the toggle button.
Click ==
  /\ Commit(onclick(Machine), "click", FALSE, 0)
  /\ UNCHANGED sens

\* The engine delivers a result (interim or final) while a session runs or is
\* being stopped.
OnResult(r, isFinal) ==
  /\ recState \in {"active", "stopping"}
  /\ Commit(onresult(Machine, Results[r], isFinal, sens), "onresult", isFinal, 0)
  /\ UNCHANGED sens

\* The engine ends the session: after stop(), or by itself.
OnEnd ==
  /\ recState \in {"active", "stopping"}
  /\ Commit(onend([Machine EXCEPT !.recState = "inactive"]), "onend", FALSE, 0)
  /\ UNCHANGED sens

\* One second passes; a timeout that is due runs before more time passes.
TimerTick ==
  /\ DOMAIN timers # {}
  /\ ~TimerDue
  /\ timers' = [id \in DOMAIN timers |-> timers[id] - 1]
  /\ last' = [ev |-> "tick", final |-> FALSE, id |-> 0,
              wasActive |-> wakeActive, wasDue |-> TimerDue, ops |-> <<>>]
  /\ UNCHANGED <<listening, recState, wakeActive, wakeTimer, nextTimerId,
                 sens, dispatched, inflight, probe>>

\* The host runs the callback of a timeout that is due.
TimerFire(id) ==
  /\ id \in DOMAIN timers
  /\ timers[id] = 0
  /\ Commit(wakeTimeoutCallback([Machine EXCEPT !.timers = Without(@, id)]),
            "timeout", FALSE, id)
  /\ UNCHANGED sens

\* An aiInterpret call issued earlier runs to its end (on any of its paths).
InterpretDone(i) ==
  /\ i \in inflight
  /\ inflight' = inflight \ {i}
  /\ last' = [ev |-> "interpreted", final |-> FALSE, id |-> 0,
              wasActive |-> wakeActive, wasDue |-> TimerDue, ops |-> <<>>]
  /\ UNCHANGED <<listening, recState, wakeActive, wakeTimer, timers, nextTimerId,
                 sens, dispatched, probe>>

\* The input handler of the wake-sensitivity control.
SetSensitivity(s) ==
  /\ s # sens
  /\ sens' = s
  /\ last' = [ev |-> "sensitivity", final |-> FALSE, id |-> 0,
              wasActive |-> wakeActive, wasDue |-> TimerDue,
              ops |-> <<"setStatus:sensitivity">>]
  /\ UNCHANGED <<listening, recState, wakeActive, wakeTimer, timers, nextTimerId,
                 dispatched, inflight, probe>>

Next ==
  \/ Click
  \/ \E r \in ResultIds, isFinal \in BOOLEAN : OnResult(r, isFinal)
  \/ OnEnd
  \/ TimerTick
  \/ \E id \in 1..MaxTimers : TimerFire(id)
  \/ \E i \in 1..MaxDispatch : InterpretDone(i)
  \/ \E s \in Sensitivities : SetSensitivity(s)

Spec == Init /\ [][Next]_vars

\* The host's timers: time passes and a due timeout runs.
LiveSpec ==
  /\ Spec
  /\ WF_vars(TimerTick)
  /\ WF_vars(\E id \in 1..MaxTimers : TimerFire(id))

\* ------------------------------------------------- the interpreter's output
\* JavaScript values, as JSON.parse builds them. A number is kept as the text
\* of its literal; an object as its keys, in the order of insertion, and their
\* values.
JUndefined == [t |-> "undefined"]
JNull == [t |-> "null"]
JBool(b) == [t |-> "bool", b |-> b]
JNum(lit) == [t |-> "num", lit |-> lit]
JStr(chars) == [t |-> "str", s |-> chars]
JArr(items) == [t |-> "arr", items |-> items]
JObj(keys, vals) == [t |-> "obj", keys |-> keys, vals |-> vals]
EmptyObj == JObj(<<>>, <<>>)

\* obj[key] = v: a key that is there keeps its place and gets the new value.
Put(obj, key, v) ==
  IF \E i \in 1..Len(obj.keys) : obj.keys[i] = key
  THEN JObj(obj.keys,
            [i \in 1..Len(obj.keys) |-> IF obj.keys[i] = key THEN v ELSE obj.vals[i]])
  ELSE JObj(Append(obj.keys, key), Append(obj.vals, v))

\* x.key (x is not null or undefined): the value of an own property of an
\* object, undefined otherwise.
Get(x, key) ==
  IF x.t = "obj" /\ \E i \in 1..Len(x.keys) : x.keys[i] = key
  THEN x.vals[CHOOSE i \in 1..Len(x.keys) : x.keys[i] = key]
  ELSE JUndefined

\* The number literal denotes 0: no digit but 0 before the exponent.
IsZero(lit) ==
  LET exps == {i \in 1..Len(lit) : lit[i] \in {"e", "E"}}
      upto == IF exps = {} THEN Len(lit) ELSE MinOf(exps) - 1
  IN  \A i \in 1..upto : lit[i] \in {"-", "0", "."}

\* !x is false: x is none of undefined, null, false, 0 and "".
Truthy(x) ==
  CASE x.t \in {"undefined", "null"} -> FALSE
    [] x.t = "bool" -> x.b
    [] x.t = "num" -> ~IsZero(x.lit)
    [] x.t = "str" -> x.s # <<>>
    [] OTHER -> TRUE

\* The result of a parsing step: ok, the value read and the position after it.
ParseFail == [ok |-> FALSE, v |-> JUndefined, next |-> 0]
ParseOk(v, next) == [ok |-> TRUE, v |-> v, next |-> next]

JsonSpace == {" ", "\t", "\n", "\r"}
Digits == {"0", "1", "2", "3", "4", "5", "6", "7", "8", "9"}

\* The first position from p on that holds no white space / no digit.
SkipSpace(text, p) ==
  LET rest == {i \in p..Len(text) : text[i] \notin JsonSpace}
  IN  IF rest = {} THEN Len(text) + 1 ELSE MinOf(rest)

SkipDigits(text, p) ==
  LET rest == {i \in p..Len(text) : text[i] \notin Digits}
  IN  IF rest = {} THEN Len(text) + 1 ELSE MinOf(rest)

At(text, p, c) == p <= Len(text) /\ text[p] = c

\* A number: -? (0 | [1-9][0-9]*) (. [0-9]+)? ([eE] [+-]? [0-9]+)?
ParseNumber(text, p) ==
  LET q    == IF At(text, p, "-") THEN p + 1 ELSE p
      int  == IF At(text, q, "0") THEN q + 1 ELSE SkipDigits(text, q)
      frac == IF At(text, int, ".") THEN SkipDigits(text, int + 1) ELSE int
      sign == IF At(text, frac + 1, "+") \/ At(text, frac + 1, "-")
              THEN frac + 2 ELSE frac + 1
      exp  == IF At(text, frac, "e") \/ At(text, frac, "E")
              THEN SkipDigits(text, sign) ELSE frac
  IN  IF int = q THEN ParseFail
      ELSE IF At(text, int, ".") /\ frac = int + 1 THEN ParseFail
      ELSE IF exp # frac /\ exp = sign THEN ParseFail
      ELSE ParseOk(JNum(SubSeq(text, p, exp - 1)), exp)

\* The characters the escapes \" \\ \/ \n \t \r stand for (\b, \f and \u are
\* not in the inputs).
Escapes ==
  ("\"" :> "\"") @@ ("\\" :> "\\") @@ ("/" :> "/") @@ ("n" :> "\n") @@
  ("t" :> "\t") @@ ("r" :> "\r")

\* The character at j, in a string that starts at i, follows an odd number of
\* backslashes: it is the second character of an escape.
Escaped(text, i, j) ==
  LET others == {k \in i..(j - 1) : text[k] # "\\"}
  IN  (IF others = {} THEN j - i ELSE j - 1 - MaxOf(others)) % 2 = 1

\* A string, from the position i after its opening quote: it ends at the
\* first quote that is not escaped; an escape other than those above, or a
\* line break or tab written as such, makes it no string.
ParseString(text, i) ==
  LET quotes == {j \in i..Len(text) : text[j] = "\"" /\ ~Escaped(text, i, j)}
  IN  IF quotes = {} THEN ParseFail
      ELSE LET close  == MinOf(quotes)
               starts == {k \in i..(close - 1) : text[k] = "\\" /\ ~Escaped(text, i, k)}
               keep   == (i..(close - 1)) \ starts
               nth(n) == CHOOSE k \in keep : Cardinality({m \in keep : m <= k}) = n
           IN  IF \E k \in starts : text[k + 1] \notin DOMAIN Escapes THEN ParseFail
               ELSE IF \E k \in keep : text[k] \in {"\n", "\t", "\r"} THEN ParseFail
               ELSE ParseOk(JStr([n \in 1..Cardinality(keep) |->
                                    IF nth(n) - 1 \in starts THEN Escapes[text[nth(n)]]
                                    ELSE text[nth(n)]]),
                            close + 1)

\* The literals true, false and null.
ParseLiteral(text, p) ==
  IF SubSeq(text, p, Min2(p + 3, Len(text))) = <<"t", "r", "u", "e">>
  THEN ParseOk(JBool(TRUE), p + 4)
  ELSE IF SubSeq(text, p, Min2(p + 4, Len(text))) = <<"f", "a", "l", "s", "e">>
  THEN ParseOk(JBool(FALSE), p + 5)
  ELSE IF SubSeq(text, p, Min2(p + 3, Len(text))) = <<"n", "u", "l", "l">>
  THEN ParseOk(JNull, p + 4)
  ELSE ParseFail

RECURSIVE ParseValue(_, _)
RECURSIVE ParseMember(_, _)
RECURSIVE ParseMembers(_, _, _)
RECURSIVE ParseItems(_, _, _)

\* One member of an object, from the first character of its key: the key,
\* the value and the position of what follows the value.
ParseMember(text, p) ==
  IF ~At(text, p, "\"") THEN ParseFail
  ELSE With(ParseString(text, p + 1), LAMBDA k :
    IF ~k.ok THEN ParseFail
    ELSE With(SkipSpace(text, k.next), LAMBDA c :
      IF ~At(text, c, ":") THEN ParseFail
      ELSE With(ParseValue(text, c + 1), LAMBDA v :
        IF ~v.ok THEN ParseFail
        ELSE [ok |-> TRUE, key |-> k.v.s, v |-> v.v, next |-> SkipSpace(text, v.next)])))

\* The members of an object, from the first character of a key.
ParseMembers(text, p, obj) ==
  With(ParseMember(text, p), LAMBDA m :
    IF ~m.ok THEN ParseFail
    ELSE IF At(text, m.next, "}") THEN ParseOk(Put(obj, m.key, m.v), m.next + 1)
    ELSE IF At(text, m.next, ",")
         THEN ParseMembers(text, SkipSpace(text, m.next + 1), Put(obj, m.key, m.v))
         ELSE ParseFail)

\* The items of an array, from the first character of an item.
ParseItems(text, p, items) ==
  With(ParseValue(text, p), LAMBDA v :
    IF ~v.ok THEN ParseFail
    ELSE With(SkipSpace(text, v.next), LAMBDA e :
      IF At(text, e, "]") THEN ParseOk(JArr(Append(items, v.v)), e + 1)
      ELSE IF At(text, e, ",") THEN ParseItems(text, e + 1, Append(items, v.v))
           ELSE ParseFail))

ParseValue(text, p0) ==
  With(SkipSpace(text, p0), LAMBDA p :
    IF p > Len(text) THEN ParseFail
    ELSE IF text[p] = "{"
         THEN With(SkipSpace(text, p + 1), LAMBDA q :
                IF At(text, q, "}") THEN ParseOk(EmptyObj, q + 1)
                ELSE ParseMembers(text, q, EmptyObj))
    ELSE IF text[p] = "["
         THEN With(SkipSpace(text, p + 1), LAMBDA q :
                IF At(text, q, "]") THEN ParseOk(JArr(<<>>), q + 1)
                ELSE ParseItems(text, q, <<>>))
    ELSE IF text[p] = "\"" THEN ParseString(text, p + 1)
    ELSE IF text[p] \in Digits \cup {"-"} THEN ParseNumber(text, p)
    ELSE ParseLiteral(text, p))

\* JSON.parse(text): the value, or thrown (a SyntaxError).
JSONparse(text) ==
  With(ParseValue(text, 1), LAMBDA r :
    IF r.ok /\ SkipSpace(text, r.next) > Len(text)
    THEN [thrown |-> FALSE, v |-> r.v]
    ELSE [thrown |-> TRUE, v |-> JUndefined])

\* text.replace(pattern, "") from position i on, for a global pattern given
\* as its letters in lower case; fold is the flag i. The matches are taken
\* from left to right and do not overlap.
RECURSIVE RemoveAll(_, _, _, _)
RemoveAll(text, pattern, fold, i) ==
  LET hits == {j \in i..(Len(text) - Len(pattern) + 1) :
                 (IF fold THEN toLowerCase(SubSeq(text, j, j + Len(pattern) - 1))
                  ELSE SubSeq(text, j, j + Len(pattern) - 1)) = pattern}
  IN  IF hits = {} THEN SubSeq(text, i, Len(text))
      ELSE SubSeq(text, i, MinOf(hits) - 1)
           \o RemoveAll(text, pattern, fold, MinOf(hits) + Len(pattern))

\* The backquote character (U+0060).
Backquote == "<backquote>"
Fence == <<Backquote, Backquote, Backquote>>
FenceJson == <<Backquote, Backquote, Backquote, "j", "s", "o", "n">>

\* String(raw).replace(/(fence)json/gi, "").replace(/(fence)/g, "").trim(),
\* where (fence) is three backquotes.
cleanFences(raw) ==
  trim(RemoveAll(RemoveAll(raw, FenceJson, TRUE, 1), Fence, FALSE, 1))

CommandKey == <<"c", "o", "m", "m", "a", "n", "d">>
ArgsKey == <<"a", "r", "g", "s">>
ConfirmationKey == <<"c", "o", "n", "f", "i", "r", "m", "a", "t", "i", "o", "n">>
ErrorKey == <<"e", "r", "r", "o", "r">>
Noop == <<"n", "o", "o", "p">>
None == <<"n", "o", "n", "e">>
CouldNotParse == <<"C", "o", "u", "l", "d", " ", "n", "o", "t", " ", "p", "a", "r", "s", "e", " ", "A", "I", " ", "o", "u", "t", "p", "u", "t">>

\* { command: "noop", args: {}, confirmation: "none", error: "Could not parse AI output" }
NoopSentinel ==
  JObj(<<CommandKey, ArgsKey, ConfirmationKey, ErrorKey>>,
       <<JStr(Noop), EmptyObj, JStr(None), JStr(CouldNotParse)>>)

\* A variant of the parse step without the catch clause.
parseOutput_NoCatch(raw) ==
  With(JSONparse(cleanFences(raw)), LAMBDA r : [thrown |-> r.thrown, parsed |-> r.v])

\* let parsed; try { parsed = JSON.parse(cleaned); } catch { parsed = {...}; }
parseOutput(raw) ==
  With(JSONparse(cleanFences(raw)), LAMBDA r :
    [thrown |-> FALSE, parsed |-> IF r.thrown THEN NoopSentinel ELSE r.v])

OpenTab == <<"o", "p", "e", "n", "_", "t", "a", "b">>
Scroll == <<"s", "c", "r", "o", "l", "l">>
SearchWeb == <<"s", "e", "a", "r", "c", "h", "_", "w", "e", "b">>
ClickUi == <<"c", "l", "i", "c", "k", "_", "u", "i">>
Summarize == <<"s", "u", "m", "m", "a", "r", "i", "z", "e">>
RewriteSelection == <<"r", "e", "w", "r", "i", "t", "e", "_", "s", "e", "l", "e", "c", "t", "i", "o", "n">>
UrlKey == <<"u", "r", "l">>
DirectionKey == <<"d", "i", "r", "e", "c", "t", "i", "o", "n">>
QueryKey == <<"q", "u", "e", "r", "y">>
TextKey == <<"t", "e", "x", "t">>
TargetKey == <<"t", "a", "r", "g", "e", "t">>
ToneKey == <<"t", "o", "n", "e">>
Up == <<"u", "p">>
Down == <<"d", "o", "w", "n">>

\* What the page and the browser do to an executor: whether there is an active
\* tab, and whether the injected script reports success.
Envs == [tab : BOOLEAN, script : BOOLEAN]

\* A call of sendResponse: the status, the action or message, and the detail
\* (the url, the direction, the query or the command name, as a value).
Response(status, what, detail) == [status |-> status, what |-> what, detail |-> detail]

\* What a run of the listener leaves: the calls of sendResponse, the calls it
\* made on the browser, and whether it threw.
Answered(r, effects) == [responses |-> <<r>>, effects |-> effects, thrown |-> FALSE]
ListenerThrew == [responses |-> <<>>, effects |-> <<>>, thrown |-> TRUE]

\* A variant of the default case that reports an error.
defaultCase_Error(command) ==
  Answered(Response("error", "Unsupported command: ", JStr(command)), <<>>)

\* default: sendResponse({ status: "noop", message: "Unsupported command: " + command })
defaultCase(command) ==
  Answered(Response("noop", "Unsupported command: ", JStr(command)), <<>>)

\* case "open_tab"
openTabCase(args) ==
  LET url == Get(args, UrlKey)
  IN  IF ~Truthy(url)
      THEN Answered(Response("error", "Missing url", JUndefined), <<>>)
      ELSE Answered(Response("ok", "opened_tab", url), <<"tabs.create">>)

\* case "scroll": the callback of executeScript answers ok whatever the script did.
scrollCase(args, env) ==
  IF ~env.tab
  THEN Answered(Response("error", "No active tab found", JUndefined), <<"tabs.query">>)
  ELSE Answered(Response("ok", "scrolled",
                         IF Get(args, DirectionKey) = JStr(Up) THEN JStr(Up) ELSE JStr(Down)),
                <<"tabs.query", "scripting.executeScript">>)

\* case "search_web": args?.query?.trim() throws for a query that is neither
\* a string nor null or undefined.
searchWebCase(args, env) ==
  LET q == Get(args, QueryKey)
  IN  IF q.t \notin {"str", "undefined", "null"} THEN ListenerThrew
      ELSE IF q.t # "str" \/ trim(q.s) = <<>>
      THEN Answered(Response("error", "Missing query", JUndefined), <<>>)
      ELSE IF ~env.tab
      THEN Answered(Response("error", "No active tab found", JUndefined), <<"tabs.query">>)
      ELSE IF env.script
      THEN Answered(Response("ok", "search_in_page", JStr(trim(q.s))),
                    <<"tabs.query", "scripting.executeScript">>)
      ELSE Answered(Response("ok", "search_google_fallback", JStr(trim(q.s))),
                    <<"tabs.query", "scripting.executeScript", "tabs.create">>)

\* A variant of case "click_ui" that does not test the label.
clickUiCase_NoTextTest(args, env) ==
  IF ~env.tab
  THEN Answered(Response("error", "Missing text or no active tab", JUndefined), <<"tabs.query">>)
  ELSE IF env.script
  THEN Answered(Response("ok", "clicked", Get(args, TextKey)),
                <<"tabs.query", "scripting.executeScript">>)
  ELSE Answered(Response("error", "No matching element found", JUndefined),
                <<"tabs.query", "scripting.executeScript">>)

\* case "click_ui": the text of the answer is the label of the element the
\* script clicked, which the page decides; the model keeps the label asked for.
clickUiCase(args, env) ==
  IF ~env.tab \/ ~Truthy(Get(args, TextKey))
  THEN Answered(Response("error", "Missing text or no active tab", JUndefined), <<"tabs.query">>)
  ELSE IF env.script
  THEN Answered(Response("ok", "clicked", Get(args, TextKey)),
                <<"tabs.query", "scripting.executeScript">>)
  ELSE Answered(Response("error", "No matching element found", JUndefined),
                <<"tabs.query", "scripting.executeScript">>)

\* The listener of chrome.runtime.onMessage for { type: "executeCommand", data }.
onMessage(msgData, env) ==
  LET data == IF Truthy(msgData) THEN msgData ELSE EmptyObj
      name == Get(data, CommandKey)
      args == IF Truthy(Get(data, ArgsKey)) THEN Get(data, ArgsKey) ELSE EmptyObj
  IN  IF Truthy(name) /\ name.t # "str" THEN ListenerThrew
      ELSE LET command == IF Truthy(name) THEN toLowerCase(name.s) ELSE <<>>
           IN  CASE command = OpenTab -> openTabCase(args)
                 [] command = Scroll -> scrollCase(args, env)
                 [] command = SearchWeb -> searchWebCase(args, env)
                 [] command = ClickUi -> clickUiCase(args, env)
                 [] OTHER -> defaultCase(command)

\* What a call of aiInterpret has done from the interpreter's output on: the
\* parsed output, where it went ("rewrite", "summarize", "executor" or, when
\* the catch clause of aiInterpret took over, "caught"), the run of the
\* listener and the lines appended to the transcript.
Interpreted(parsed, route, run, ops) ==
  [parsed |-> parsed, route |-> route, run |-> run, ops |-> ops]

NotRun == [responses |-> <<>>, effects |-> <<>>, thrown |-> FALSE]

\* The callback given to chrome.runtime.sendMessage (popup.js 193-202).
responseCallback(run) ==
  IF run.responses = <<>> THEN "appendTranscript:failed"
  ELSE IF run.responses[1].status = "ok" THEN "appendTranscript:executed"
  ELSE IF run.responses[1].status = "noop" THEN "appendTranscript:unsupported"
  ELSE "appendTranscript:failed"

\* aiInterpret from the interpreter's output on (popup.js 164-206).
interpretOutput(raw, env) ==
  With(parseOutput(raw), LAMBDA p :
    IF p.thrown \/ p.parsed.t = "null"
    THEN Interpreted(p.parsed, "caught", NotRun, <<"appendTranscript:aiError">>)
    ELSE With(Get(p.parsed, CommandKey), LAMBDA name :
      With(IF Get(p.parsed, ArgsKey).t \in {"undefined", "null"} THEN EmptyObj
           ELSE Get(p.parsed, ArgsKey), LAMBDA args :
        IF name = JStr(RewriteSelection)
        THEN IF Truthy(Get(args, ToneKey)) /\ Get(args, ToneKey).t # "str"
             THEN Interpreted(p.parsed, "caught", NotRun, <<"appendTranscript:aiError">>)
             ELSE Interpreted(p.parsed, "rewrite", NotRun,
                              <<"handleRewriteSelectionFromPopup">>)
        ELSE IF name = JStr(Summarize)
        THEN Interpreted(p.parsed, "summarize", NotRun,
                         <<"appendTranscript:parsed", "handleSummarizeFromPopup">>)
        ELSE With(onMessage(p.parsed, env), LAMBDA run :
               Interpreted(p.parsed, "executor", run,
                           <<"appendTranscript:parsed", "sendMessage",
                             responseCallback(run)>>)))))

\* The outputs of the interpreter the model runs aiInterpret on.
RawOutputs ==
  {
    \* prose instead of JSON
    <<"I", " ", "c", "a", "n", "n", "o", "t", " ", "h", "e", "l", "p", " ", "w", "i", "t", "h", " ", "t", "h", "a", "t">>,
    \* nothing
    <<>>,
    \* JSON cut short
    <<"{", "\"", "c", "o", "m", "m", "a", "n", "d", "\"", ":", "\"", "s", "c", "r", "o", "l", "l", "\"", ",", "\"", "a", "r", "g", "s", "\"", ":", "{", "\"", "d", "i", "r", "e", "c", "t", "i", "o", "n", "\"", ":", "\"", "u", "p", "\"", "}">>,
    \* JSON in fences with prose around them
    <<"S", "u", "r", "e", "!", " ", Backquote, Backquote, Backquote, "j", "s", "o", "n", "\n", "{", "\"", "c", "o", "m", "m", "a", "n", "d", "\"", ":", "\"", "s", "c", "r", "o", "l", "l", "\"", ",", "\"", "a", "r", "g", "s", "\"", ":", "{", "}", ",", "\"", "c", "o", "n", "f", "i", "r", "m", "a", "t", "i", "o", "n", "\"", ":", "\"", "n", "o", "n", "e", "\"", "}", "\n", Backquote, Backquote, Backquote, " ", "D", "o", "n", "e", ".">>,
    \* an open_tab command in fences
    <<Backquote, Backquote, Backquote, "j", "s", "o", "n", "\n", "{", "\"", "c", "o", "m", "m", "a", "n", "d", "\"", ":", "\"", "o", "p", "e", "n", "_", "t", "a", "b", "\"", ",", "\"", "a", "r", "g", "s", "\"", ":", "{", "\"", "u", "r", "l", "\"", ":", "\"", "h", "t", "t", "p", "s", ":", "/", "/", "e", "x", "a", "m", "p", "l", "e", ".", "c", "o", "m", "\"", "}", ",", "\"", "c", "o", "n", "f", "i", "r", "m", "a", "t", "i", "o", "n", "\"", ":", "\"", "n", "o", "n", "e", "\"", "}", "\n", Backquote, Backquote, Backquote>>,
    \* open_tab without url
    <<"{", "\"", "c", "o", "m", "m", "a", "n", "d", "\"", ":", "\"", "o", "p", "e", "n", "_", "t", "a", "b", "\"", ",", "\"", "a", "r", "g", "s", "\"", ":", "{", "}", ",", "\"", "c", "o", "n", "f", "i", "r", "m", "a", "t", "i", "o", "n", "\"", ":", "\"", "n", "o", "n", "e", "\"", "}">>,
    \* scroll up
    <<"{", "\"", "c", "o", "m", "m", "a", "n", "d", "\"", ":", "\"", "s", "c", "r", "o", "l", "l", "\"", ",", "\"", "a", "r", "g", "s", "\"", ":", "{", "\"", "d", "i", "r", "e", "c", "t", "i", "o", "n", "\"", ":", "\"", "u", "p", "\"", "}", ",", "\"", "c", "o", "n", "f", "i", "r", "m", "a", "t", "i", "o", "n", "\"", ":", "\"", "n", "o", "n", "e", "\"", "}">>,
    \* scroll, the name with a capital letter
    <<"{", "\"", "c", "o", "m", "m", "a", "n", "d", "\"", ":", "\"", "S", "c", "r", "o", "l", "l", "\"", ",", "\"", "a", "r", "g", "s", "\"", ":", "{", "\"", "d", "i", "r", "e", "c", "t", "i", "o", "n", "\"", ":", "\"", "d", "o", "w", "n", "\"", "}", ",", "\"", "c", "o", "n", "f", "i", "r", "m", "a", "t", "i", "o", "n", "\"", ":", "\"", "n", "o", "n", "e", "\"", "}">>,
    \* search_web
    <<"{", "\"", "c", "o", "m", "m", "a", "n", "d", "\"", ":", "\"", "s", "e", "a", "r", "c", "h", "_", "w", "e", "b", "\"", ",", "\"", "a", "r", "g", "s", "\"", ":", "{", "\"", "q", "u", "e", "r", "y", "\"", ":", "\"", " ", "c", "a", "t", "s", " ", "\"", "}", ",", "\"", "c", "o", "n", "f", "i", "r", "m", "a", "t", "i", "o", "n", "\"", ":", "\"", "n", "o", "n", "e", "\"", "}">>,
    \* search_web, the query a number
    <<"{", "\"", "c", "o", "m", "m", "a", "n", "d", "\"", ":", "\"", "s", "e", "a", "r", "c", "h", "_", "w", "e", "b", "\"", ",", "\"", "a", "r", "g", "s", "\"", ":", "{", "\"", "q", "u", "e", "r", "y", "\"", ":", "7", "}", ",", "\"", "c", "o", "n", "f", "i", "r", "m", "a", "t", "i", "o", "n", "\"", ":", "\"", "n", "o", "n", "e", "\"", "}">>,
    \* click_ui
    <<"{", "\"", "c", "o", "m", "m", "a", "n", "d", "\"", ":", "\"", "c", "l", "i", "c", "k", "_", "u", "i", "\"", ",", "\"", "a", "r", "g", "s", "\"", ":", "{", "\"", "t", "e", "x", "t", "\"", ":", "\"", "S", "i", "g", "n", " ", "i", "n", "\"", "}", ",", "\"", "c", "o", "n", "f", "i", "r", "m", "a", "t", "i", "o", "n", "\"", ":", "\"", "n", "o", "n", "e", "\"", "}">>,
    \* click_ui without text
    <<"{", "\"", "c", "o", "m", "m", "a", "n", "d", "\"", ":", "\"", "c", "l", "i", "c", "k", "_", "u", "i", "\"", ",", "\"", "a", "r", "g", "s", "\"", ":", "{", "}", ",", "\"", "c", "o", "n", "f", "i", "r", "m", "a", "t", "i", "o", "n", "\"", ":", "\"", "n", "o", "n", "e", "\"", "}">>,
    \* summarize
    <<"{", "\"", "c", "o", "m", "m", "a", "n", "d", "\"", ":", "\"", "s", "u", "m", "m", "a", "r", "i", "z", "e", "\"", ",", "\"", "a", "r", "g", "s", "\"", ":", "{", "\"", "t", "a", "r", "g", "e", "t", "\"", ":", "\"", "p", "a", "g", "e", "\"", "}", ",", "\"", "c", "o", "n", "f", "i", "r", "m", "a", "t", "i", "o", "n", "\"", ":", "\"", "n", "o", "n", "e", "\"", "}">>,
    \* summarize in upper case
    <<"{", "\"", "c", "o", "m", "m", "a", "n", "d", "\"", ":", "\"", "S", "U", "M", "M", "A", "R", "I", "Z", "E", "\"", ",", "\"", "a", "r", "g", "s", "\"", ":", "{", "}", ",", "\"", "c", "o", "n", "f", "i", "r", "m", "a", "t", "i", "o", "n", "\"", ":", "\"", "n", "o", "n", "e", "\"", "}">>,
    \* rewrite_selection
    <<"{", "\"", "c", "o", "m", "m", "a", "n", "d", "\"", ":", "\"", "r", "e", "w", "r", "i", "t", "e", "_", "s", "e", "l", "e", "c", "t", "i", "o", "n", "\"", ",", "\"", "a", "r", "g", "s", "\"", ":", "{", "\"", "t", "o", "n", "e", "\"", ":", "\"", "c", "a", "s", "u", "a", "l", "\"", "}", ",", "\"", "c", "o", "n", "f", "i", "r", "m", "a", "t", "i", "o", "n", "\"", ":", "\"", "n", "o", "n", "e", "\"", "}">>,
    \* rewrite_selection, the tone a number
    <<"{", "\"", "c", "o", "m", "m", "a", "n", "d", "\"", ":", "\"", "r", "e", "w", "r", "i", "t", "e", "_", "s", "e", "l", "e", "c", "t", "i", "o", "n", "\"", ",", "\"", "a", "r", "g", "s", "\"", ":", "{", "\"", "t", "o", "n", "e", "\"", ":", "5", "}", ",", "\"", "c", "o", "n", "f", "i", "r", "m", "a", "t", "i", "o", "n", "\"", ":", "\"", "n", "o", "n", "e", "\"", "}">>,
    \* a command that is not supported, with a capital letter
    <<"{", "\"", "c", "o", "m", "m", "a", "n", "d", "\"", ":", "\"", "F", "l", "y", "\"", ",", "\"", "a", "r", "g", "s", "\"", ":", "{", "}", ",", "\"", "c", "o", "n", "f", "i", "r", "m", "a", "t", "i", "o", "n", "\"", ":", "\"", "n", "o", "n", "e", "\"", "}">>,
    \* a command that is not supported
    <<"{", "\"", "c", "o", "m", "m", "a", "n", "d", "\"", ":", "\"", "f", "l", "y", "\"", ",", "\"", "a", "r", "g", "s", "\"", ":", "{", "}", ",", "\"", "c", "o", "n", "f", "i", "r", "m", "a", "t", "i", "o", "n", "\"", ":", "\"", "r", "e", "q", "u", "i", "r", "e", "d", "\"", "}">>,
    \* the command noop, well-formed
    <<"{", "\"", "c", "o", "m", "m", "a", "n", "d", "\"", ":", "\"", "n", "o", "o", "p", "\"", ",", "\"", "a", "r", "g", "s", "\"", ":", "{", "}", ",", "\"", "c", "o", "n", "f", "i", "r", "m", "a", "t", "i", "o", "n", "\"", ":", "\"", "n", "o", "n", "e", "\"", "}">>,
    \* a string value that is a fence
    <<"{", "\"", "c", "o", "m", "m", "a", "n", "d", "\"", ":", "\"", "c", "l", "i", "c", "k", "_", "u", "i", "\"", ",", "\"", "a", "r", "g", "s", "\"", ":", "{", "\"", "t", "e", "x", "t", "\"", ":", "\"", Backquote, Backquote, Backquote, "\"", "}", ",", "\"", "c", "o", "n", "f", "i", "r", "m", "a", "t", "i", "o", "n", "\"", ":", "\"", "n", "o", "n", "e", "\"", "}">>,
    \* an object without command
    <<"{", "\"", "a", "r", "g", "s", "\"", ":", "{", "}", ",", "\"", "c", "o", "n", "f", "i", "r", "m", "a", "t", "i", "o", "n", "\"", ":", "\"", "n", "o", "n", "e", "\"", "}">>,
    \* the command a number
    <<"{", "\"", "c", "o", "m", "m", "a", "n", "d", "\"", ":", "4", "2", ",", "\"", "a", "r", "g", "s", "\"", ":", "{", "}", ",", "\"", "c", "o", "n", "f", "i", "r", "m", "a", "t", "i", "o", "n", "\"", ":", "\"", "n", "o", "n", "e", "\"", "}">>,
    \* null
    <<"n", "u", "l", "l">>,
    \* a number
    <<"4", "2">>,
    \* a string
    <<"\"", "o", "p", "e", "n", "_", "t", "a", "b", "\"">>,
    \* an array
    <<"[", "]">>
  }

InterpretInputs ==
  {[fn |-> "aiInterpret", done |-> FALSE, raw |-> x, env |-> e,
    out |-> Interpreted(JUndefined, "none", NotRun, <<>>)] :
     x \in RawOutputs, e \in Envs}

\* ------------------------------------------------ the functions on their own
\* The letters and strings editDistanceAtMost is called with.
Alphabet == {"a", "b"}
Strings == UNION {[1..n -> Alphabet] : n \in 0..MaxLen}

EditDistanceInputs ==
  {[fn |-> "editDistanceAtMost", done |-> FALSE, s |-> a, t |-> b, maxD |-> k,
    out |-> -1, rows |-> -1] : a \in Strings, b \in Strings, k \in 0..MaxK}

\* The texts wakeMatches and stripAfterWake are called with: every variant,
\* every two variants with a blank between them, and texts with a wake phrase
\* that is misheard, in upper case, late in the text or absent.
OtherTexts ==
  {
    \* the empty text
    <<>>,
    \* shorter than every variant
    <<"h", "i">>,
    \* two edits from "hey cat"
    <<"m", "y", " ", "c", "a", "t">>,
    \* three edits from "hey cat"
    <<"m", "y", " ", "b", "a", "t">>,
    \* one edit from "hey cat"
    <<"h", "e", "y", " ", "b", "a", "t">>,
    \* a near wake phrase and a command
    <<"h", "a", "y", " ", "c", "a", "t", " ", "g", "o", " ", "u", "p">>,
    \* a near wake phrase after two letters
    <<"x", "x", " ", "h", "a", "y", " ", "c", "a", "t">>,
    \* near "hey cut" at 0, near "hey cat" at 11
    <<"h", "e", "y", " ", "k", "u", "t", " ", "x", "x", " ", "h", "a", "y", " ", "c", "a", "t">>,
    \* no wake phrase
    <<"s", "c", "r", "o", "l", "l", " ", "d", "o", "w", "n", " ", "p", "l", "e", "a", "s", "e">>,
    \* one edit from "lazy cat"
    <<"l", "a", "z", "y", " ", "c", "o", "t">>,
    \* one edit from "he got"
    <<"h", "e", " ", "g", "u", "t", " ", "i", "t">>,
    \* 44 characters, a near wake phrase from 37 on
    <<"p", "l", "e", "a", "s", "e", " ", "o", "p", "e", "n", " ", "t", "h", "e", " ", "n", "e", "w", " ", "t", "a", "b", " ", "a", "n", "d", " ", "t", "h", "e", "n", " ", "s", "a", "y", " ", "h", "a", "y", " ", "c", "a", "t">>,
    \* 37 characters, a near wake phrase from 30 on
    <<"o", "p", "e", "n", " ", "t", "h", "e", " ", "n", "e", "w", " ", "t", "a", "b", " ", "a", "n", "d", " ", "t", "h", "e", "n", " ", "s", "a", "y", " ", "h", "a", "y", " ", "c", "a", "t">>,
    \* upper case
    <<"H", "e", "y", " ", "C", "a", "t", " ", "o", "p", "e", "n", " ", "t", "h", "e", " ", "s", "i", "t", "e">>,
    \* a wake phrase and blanks
    <<"h", "e", "y", " ", "c", "a", "t", " ", " ", " ">>,
    \* a wake phrase in upper case, blanks around the command
    <<"o", "k", " ", "L", "A", "Z", "Y", " ", "C", "A", "T", " ", "s", "c", "r", "o", "l", "l", " ", " ", "d", "o", "w", "n", " ">>,
    \* a misheard wake phrase that is itself a variant
    <<"l", "a", "z", "y", " ", "c", "u", "t">>,
    \* 40 characters, a wake phrase from 33 on
    <<"p", "l", "e", "a", "s", "e", " ", "o", "p", "e", "n", " ", "t", "h", "e", " ", "n", "e", "w", " ", "t", "a", "b", " ", "a", "n", "d", " ", "t", "h", "e", "n", " ", "h", "e", "y", " ", "c", "a", "t">>
  }

WakeTexts ==
  {BASE_WAKE_VARIANTS[k] : k \in DOMAIN BASE_WAKE_VARIANTS}
    \cup {BASE_WAKE_VARIANTS[k] \o <<" ">> \o BASE_WAKE_VARIANTS[l] :
            k \in DOMAIN BASE_WAKE_VARIANTS, l \in DOMAIN BASE_WAKE_VARIANTS}
    \cup OtherTexts

WakeMatchesInputs ==
  {[fn |-> "wakeMatches", done |-> FALSE, text |-> x, sensitivity |-> y,
    out |-> NoMatch, path |-> "none"] : x \in WakeTexts, y \in Sensitivities}

StripAfterWakeInputs ==
  {[fn |-> "stripAfterWake", done |-> FALSE, text |-> x, sensitivity |-> y,
    info |-> NoMatch, path |-> "none", out |-> NoRemainder] :
     x \in WakeTexts, y \in Sensitivities}

\* The lists of alternatives the selection is run on: the results the engine
\* delivers in the model, and lists that set the rules of the selection
\* against each other.
OtherLists ==
  {
    \* no wake phrase, the two longest of equal length ranked first
    << <<"s", "t", "o", "p", " ", "n", "o", "w">>,
       <<"s", "t", "o", "p", " ", "c", "o", "w">>,
       <<"g", "o">> >>,
    \* no wake phrase, the two longest of equal length ranked last
    << <<"g", "o">>,
       <<"s", "c", "r", "o", "l", "l", " ", "d", "o", "w", "n">>,
       <<"s", "c", "r", "o", "l", "l", " ", "t", "o", "w", "n">> >>,
    \* blank alternatives around one that is not
    << <<" ", " ">>,
       <<"o", "p", "e", "n", " ", "s", "i", "t", "e">>,
       <<>> >>,
    \* a wake match (at Default and Loose) in the shorter, second alternative
    << <<"h", "i", " ", " ", "t", "h", "e", "r", "e">>,
       <<"m", "y", " ", "c", "a", "t">> >>,
    \* an alternative that is the longest only by its trailing blanks
    << <<"a", "b", " ", " ", " ", " ", " ", " ", " ">>,
       <<"a", "b", "c">> >>,
    \* a near wake phrase ranked before an exact one
    << <<"h", "e", "y", " ", "b", "a", "t", " ", "g", "o">>,
       <<"h", "e", "y", " ", "c", "a", "t", " ", "g", "o">> >>,
    \* the bare wake word ranked before wake word and command
    << <<"h", "e", "y", " ", "c", "a", "t">>,
       <<"h", "e", "y", " ", "c", "a", "t", " ", "o", "p", "e", "n", " ", "t", "h", "e", " ", "s", "i", "t", "e">> >>
  }

NBestLists == {Results[r] : r \in ResultIds} \cup OtherLists

SelectionInputs ==
  {[fn |-> "chosen", done |-> FALSE, res |-> x, sensitivity |-> y,
    alts |-> <<>>, chosen |-> <<>>] : x \in NBestLists, y \in Sensitivities}

\* The wake state machine at rest, and a function about to be called.
\* The results recognition.onresult is run on by itself: each wake phrase of
\* the list as the only alternative, and the results of the model.
OnResultInputs ==
  {[fn |-> "onresult", done |-> FALSE, res |-> x] :
     x \in {<<BASE_WAKE_VARIANTS[k]>> : k \in 1..Len(BASE_WAKE_VARIANTS)}
            \cup {Results[r] : r \in ResultIds}}

\* The popup as loaded, before the first click.
AtRest ==
  /\ listening = FALSE
  /\ recState = "none"
  /\ wakeActive = FALSE
  /\ wakeTimer = NoTimer
  /\ timers = <<>>
  /\ nextTimerId = 1
  /\ sens = 1

\* The popup listening, Idle or Armed with its timeout some seconds from due.
Hearing ==
  /\ listening = TRUE
  /\ recState = "active"
  /\ sens \in Sensitivities
  /\ \/ /\ wakeActive = FALSE
        /\ wakeTimer = NoTimer
        /\ timers = <<>>
        /\ nextTimerId = 1
     \/ /\ wakeActive = TRUE
        /\ wakeTimer = 1
        /\ \E left \in 1..WakeTimeoutSecs : timers = (1 :> left)
        /\ nextTimerId = 2

FnInit ==
  /\ dispatched = <<>>
  /\ inflight = {}
  /\ last = [ev |-> "load", final |-> FALSE, id |-> 0,
             wasActive |-> FALSE, wasDue |-> FALSE, ops |-> <<>>]
  /\ \/ AtRest /\ probe \in EditDistanceInputs
     \/ AtRest /\ probe \in WakeMatchesInputs
     \/ AtRest /\ probe \in StripAfterWakeInputs
     \/ AtRest /\ probe \in SelectionInputs
     \/ AtRest /\ probe \in InterpretInputs
     \/ Hearing /\ probe \in OnResultInputs

\* The function returns: the probe holds its result.
Return(p) ==
  /\ probe' = p
  /\ UNCHANGED <<listening, recState, wakeActive, wakeTimer, timers, nextTimerId,
                 sens, dispatched, inflight, last>>

CallEditDistance ==
  /\ probe.fn = "editDistanceAtMost"
  /\ ~probe.done
  /\ Return([probe EXCEPT
               !.done = TRUE,
               !.out = editDistanceAtMost(probe.s, probe.t, probe.maxD),
               !.rows = editDistanceRows(probe.s, probe.t, probe.maxD)])

CallWakeMatches ==
  /\ probe.fn = "wakeMatches"
  /\ ~probe.done
  /\ Return([probe EXCEPT
               !.done = TRUE,
               !.out = wakeMatches(probe.text, probe.sensitivity),
               !.path = wakeMatchesPath(probe.text, probe.sensitivity)])

\* const info = wakeMatches(text, sensitivity); ...; return ...
CallStripAfterWake ==
  /\ probe.fn = "stripAfterWake"
  /\ ~probe.done
  /\ Return([probe EXCEPT
               !.done = TRUE,
               !.info = wakeMatches(probe.text, probe.sensitivity),
               !.path = wakeMatchesPath(probe.text, probe.sensitivity),
               !.out = stripAfterWake(probe.text, probe.sensitivity)])

\* The hypothesis selection of recognition.onresult (popup.js 374-387).
CallSelection ==
  /\ probe.fn = "chosen"
  /\ ~probe.done
  /\ Return(With(Hear(probe.res, probe.sensitivity), LAMBDA h :
               [probe EXCEPT !.done = TRUE, !.alts = h.alts, !.chosen = h.chosen]))

\* aiInterpret, from the point where the interpreter has answered.
CallInterpret ==
  /\ probe.fn = "aiInterpret"
  /\ ~probe.done
  /\ Return([probe EXCEPT !.done = TRUE,
                          !.out = interpretOutput(probe.raw, probe.env)])

\* recognition.onresult for a final result, from the state the popup is in.
CallOnResult ==
  /\ probe.fn = "onresult"
  /\ ~probe.done
  /\ LET m == onresult(Machine, probe.res, TRUE, sens)
     IN  /\ listening' = m.listening
         /\ recState' = m.recState
         /\ wakeActive' = m.wakeActive
         /\ wakeTimer' = m.wakeTimer
         /\ timers' = m.timers
         /\ nextTimerId' = m.nextTimerId
         /\ dispatched' = m.dispatched
         /\ inflight' = m.inflight
         /\ last' = [ev |-> "onresult", final |-> TRUE, id |-> 0,
                     wasActive |-> wakeActive, wasDue |-> TimerDue, ops |-> m.ops]
  /\ probe' = [probe EXCEPT !.done = TRUE]
  /\ UNCHANGED sens

FnNext ==
  \/ CallEditDistance
  \/ CallWakeMatches
  \/ CallStripAfterWake
  \/ CallSelection
  \/ CallInterpret
  \/ CallOnResult

FnSpec == FnInit /\ [][FnNext]_vars

\* ------------------------------------------------- what the claims speak of
Range(f) == {f[i] : i \in DOMAIN f}

Blank(t) == \A i \in 1..Len(t) : IsSpace(t[i])

\* u is t without its leading and trailing white space.
IsTrimOf(u, t) ==
  \E a \in 0..Len(t) :
    /\ a + Len(u) <= Len(t)
    /\ \A i \in 1..a : IsSpace(t[i])
    /\ \A i \in 1..Len(u) : t[a + i] = u[i]
    /\ \A i \in (a + Len(u) + 1)..Len(t) : IsSpace(t[i])
    /\ u # <<>> => (~IsSpace(u[1]) /\ ~IsSpace(u[Len(u)]))

\* The hypothesis the handler acts on, and its wake match.
ChosenOf(r, s) == Heard[r, s].chosen
WakeOf(r, s) == wakeMatches(toLowerCase(ChosenOf(r, s)), s)

\* The text of the chosen hypothesis (case-folded) after the matched span.
RestOf(r, s) ==
  LET lower == toLowerCase(ChosenOf(r, s))
      w     == WakeOf(r, s)
  IN  [i \in 1..(Len(lower) - (w.index + Len(w.match))) |->
         lower[w.index + Len(w.match) + i]]

\* The case of a final result: no non-blank alternative ("blank"), a chosen
\* hypothesis without wake match ("nowake"), with a wake match and nothing
\* after it ("bare"), or with a wake match and a command after it ("command").
InputCase ==
  [r \in ResultIds, s \in Sensitivities |->
     IF \A i \in 1..Len(Results[r]) : Blank(Results[r][i]) THEN "blank"
     ELSE IF ~WakeOf(r, s).found THEN "nowake"
     ELSE IF Blank(RestOf(r, s)) THEN "bare"
     ELSE "command"]

OpenTheSite == <<"o", "p", "e", "n", " ", "t", "h", "e", " ", "s", "i", "t", "e">>
ScrollDownPlease ==
  <<"s", "c", "r", "o", "l", "l", " ", "d", "o", "w", "n", " ", "p", "l", "e", "a", "s", "e">>

\* The step is the handling of a final result (OnResult(r, TRUE) for some r).
FinalResultStep == last'.ev = "onresult" /\ last'.final

\* The handler that ran last called aiInterpret / cancelled a pending timeout.
LastDispatched == "aiInterpret" \in Range(last.ops)
LastCancelled == "clearTimeout" \in Range(last.ops)
LastUtterance == dispatched[Len(dispatched)]

\* ------------------------------------------------------------------ claims
\* C1: whenever no handler is running (every state of this model: a handler
\* is one step), a wake timeout is pending if and only if the wake state is
\* Armed; and the pending timeout is the one wakeTimer names.
C1_TimerPendingIffArmed ==
  /\ (DOMAIN timers # {}) <=> wakeActive
  /\ wakeActive => DOMAIN timers = {wakeTimer}

\* Armed for the second time, after a timeout fired or a command was taken,
\* with listening toggled off.
C1_Witness ==
  /\ wakeActive
  /\ wakeTimer = 2
  /\ DOMAIN timers = {2}
  /\ ~listening

\* C2: from Idle or Armed, a final result whose chosen hypothesis has a wake
\* match followed by a command emits exactly one dispatch, of the trimmed text
\* after the matched span, and leaves the state Idle with no timeout pending;
\* alternatives ["hey cat open the site", "hey cut open the site"] at Default
\* dispatch "open the site".
C2_WakeWithCommandDispatches ==
  [][\A r \in ResultIds :
       (FinalResultStep /\ InputCase[r, sens] = "command" /\ OnResult(r, TRUE)) =>
         /\ Len(dispatched') = Len(dispatched) + 1
         /\ SubSeq(dispatched', 1, Len(dispatched)) = dispatched
         /\ IsTrimOf(dispatched'[Len(dispatched')], RestOf(r, sens))
         /\ dispatched'[Len(dispatched')] # <<>>
         /\ (r = 1 /\ sens = 1) => dispatched'[Len(dispatched')] = OpenTheSite
         /\ inflight' = inflight \cup {Len(dispatched')}
         /\ ~wakeActive'
         /\ DOMAIN timers' = {}]_vars

\* "open the site" was dispatched from Armed, and the pending timeout cancelled.
C2_Witness ==
  /\ last.ev = "onresult"
  /\ last.wasActive
  /\ LastDispatched
  /\ LastCancelled
  /\ LastUtterance = OpenTheSite
  /\ ~wakeActive
  /\ DOMAIN timers = {}

\* C3: from Idle or Armed, a final result whose chosen hypothesis is a bare
\* wake word emits no dispatch and leaves the state Armed with exactly one
\* pending timeout, freshly started with 5 seconds to run, any earlier one
\* cancelled; there are never two timeouts pending, and a timeout that runs
\* is the one started last, never a replaced one.
C3_BareWakeArms ==
  /\ [](Cardinality(DOMAIN timers) <= 1)
  /\ [][\A r \in ResultIds :
          (FinalResultStep /\ InputCase[r, sens] = "bare" /\ OnResult(r, TRUE)) =>
            /\ dispatched' = dispatched
            /\ inflight' = inflight
            /\ wakeActive'
            /\ wakeTimer' = nextTimerId
            /\ wakeTimer' \notin DOMAIN timers
            /\ DOMAIN timers' = {wakeTimer'}
            /\ timers'[wakeTimer'] = WakeTimeoutSecs]_vars
  /\ [][\A id \in 1..MaxTimers :
          (last'.ev = "timeout" /\ TimerFire(id)) =>
            (id = wakeTimer /\ id + 1 = nextTimerId)]_vars

\* Re-armed while Armed: timeout 1 was cancelled, timeout 2 is fresh.
C3_Witness ==
  /\ last.ev = "onresult"
  /\ last.wasActive
  /\ LastCancelled
  /\ ~LastDispatched
  /\ wakeActive
  /\ timers = (2 :> WakeTimeoutSecs)

\* C4: when the state is Armed, a final result whose chosen hypothesis has no
\* wake match is dispatched whole, exactly once; the timeout is cancelled and
\* the state becomes Idle ("scroll down please" while Armed).
C4_ArmedCommandDispatches ==
  [][\A r \in ResultIds :
       (FinalResultStep /\ wakeActive /\ InputCase[r, sens] = "nowake"
          /\ OnResult(r, TRUE)) =>
         /\ dispatched' = Append(dispatched, ChosenOf(r, sens))
         /\ r = 3 => dispatched'[Len(dispatched')] = ScrollDownPlease
         /\ inflight' = inflight \cup {Len(dispatched')}
         /\ ~wakeActive'
         /\ wakeTimer' = NoTimer
         /\ DOMAIN timers' = {}]_vars

\* "scroll down please" was dispatched from Armed before the timeout ran.
C4_Witness ==
  /\ last.ev = "onresult"
  /\ last.wasActive
  /\ LastDispatched
  /\ LastCancelled
  /\ LastUtterance = ScrollDownPlease
  /\ ~wakeActive

\* C5: when the state is Idle, a final result whose chosen hypothesis has no
\* wake match is ignored: no dispatch, the state stays Idle, and no timeout
\* is created or touched.
C5_IdleNoWakeIgnored ==
  [][\A r \in ResultIds :
       (FinalResultStep /\ ~wakeActive /\ InputCase[r, sens] = "nowake"
          /\ OnResult(r, TRUE)) =>
         /\ dispatched' = dispatched
         /\ inflight' = inflight
         /\ ~wakeActive'
         /\ timers' = timers
         /\ wakeTimer' = wakeTimer
         /\ nextTimerId' = nextTimerId]_vars

\* A final result without wake match was handled in Idle, with a command of
\* an earlier cycle still being interpreted.
C5_Witness ==
  /\ last.ev = "onresult"
  /\ last.final
  /\ ~last.wasActive
  /\ last.ops = <<"recognition.stop">>
  /\ inflight # {}
  /\ ~wakeActive

\* C6: a timeout that was started and is not cancelled or replaced by the
\* handler of a later final result eventually runs; it runs only once its 5
\* seconds have passed, in state Armed, and it leaves the state Idle, sets the
\* "wake timed out" status and dispatches nothing.
C6_TimeoutReturnsToIdle ==
  /\ \A k \in 1..MaxTimers :
       (wakeActive /\ wakeTimer = k) ~> (wakeTimer # k \/ ~wakeActive)
  /\ [](last.ev = "timeout" =>
          /\ last.wasActive
          /\ ~wakeActive
          /\ last.ops = <<"wakeActive=false", "setStatus:timedOut">>
          /\ last.id = wakeTimer
          /\ DOMAIN timers = {})
  /\ [][last'.ev = "timeout" =>
          /\ last'.id \in DOMAIN timers
          /\ timers[last'.id] = 0
          /\ dispatched' = dispatched
          /\ inflight' = inflight]_vars

\* The second timeout ran, with nothing dispatched so far.
C6_Witness ==
  /\ last.ev = "timeout"
  /\ last.id = 2
  /\ ~wakeActive
  /\ dispatched = <<>>

\* C7: of the arm-timeout and a final result, the first wins and the other
\* does nothing: the timeout callback never runs in state Idle (a handler that
\* left Armed cancelled it), and a result without wake match that arrives
\* after the timeout ran (the handle in wakeTimer is stale) is not dispatched.
C7_FirstOfTimeoutAndResultWins ==
  /\ [](last.ev = "timeout" => last.wasActive)
  /\ [](~wakeActive => ~TimerDue)
  /\ [][\A r \in ResultIds :
          (FinalResultStep /\ wakeTimer # NoTimer /\ wakeTimer \notin DOMAIN timers
             /\ InputCase[r, sens] = "nowake" /\ OnResult(r, TRUE)) =>
            /\ dispatched' = dispatched
            /\ ~wakeActive']_vars

\* A final result was handled when the timeout was due but had not run: the
\* handler dispatched and cancelled it.
C7_Witness ==
  /\ last.ev = "onresult"
  /\ last.wasDue
  /\ last.wasActive
  /\ LastDispatched
  /\ LastCancelled
  /\ ~wakeActive
  /\ DOMAIN timers = {}

\* A result without wake match was ignored after the timeout had run.
C7_WitnessLate ==
  /\ last.ev = "onresult"
  /\ last.final
  /\ wakeTimer # NoTimer
  /\ wakeTimer \notin DOMAIN timers
  /\ last.ops = <<"recognition.stop">>

\* C8: at most one command dispatch is in flight at a time: aiInterpret is not
\* called again before the previous call has resolved.
C8_AtMostOneInFlight == Cardinality(inflight) <= 1

\* C9: a step dispatches at most one command, only the handler of a final
\* result dispatches, it calls aiInterpret once, and after it the state is
\* Idle with no timeout pending, so the arm cycle is used up.
C9_OneDispatchPerEvent ==
  [][/\ Len(dispatched') <= Len(dispatched) + 1
     /\ Len(dispatched') >= Len(dispatched)
     /\ Len(dispatched') > Len(dispatched) =>
          /\ FinalResultStep
          /\ Cardinality({i \in DOMAIN last'.ops : last'.ops[i] = "aiInterpret"}) = 1
          /\ ~wakeActive'
          /\ DOMAIN timers' = {}]_vars

\* The same utterance was dispatched by two final results, the second in Idle.
C9_Witness ==
  /\ Len(dispatched) = 2
  /\ dispatched[1] = dispatched[2]
  /\ last.ev = "onresult"
  /\ LastDispatched
  /\ ~last.wasActive
  /\ ~wakeActive

\* The calls and assignments of the last handler that assign wakeActive.
WakeWrites == {i \in DOMAIN last.ops : last.ops[i] \in {"wakeActive=false", "wakeActive=true"}}

\* C10, as claimed: in the handler of a final result, the timeout is cancelled
\* before wakeActive is assigned.
C10_CancelBeforeStateChange ==
  last.ev = "onresult" =>
    \A i \in WakeWrites : \E j \in 1..(i - 1) : last.ops[j] = "clearWakeTimer"

\* C10, amended: in the handler of a final result, every assignment to
\* wakeActive is followed, in the same run of the handler, by the cancellation
\* of the timeout (clearWakeTimer, called directly or by armWakeTimeout), and
\* none precedes it; when the handler has left the state Idle no timeout is
\* pending.
C10_CancelAfterStateChange ==
  last.ev = "onresult" =>
    /\ \A i \in WakeWrites :
         /\ \E j \in (i + 1)..Len(last.ops) : last.ops[j] = "clearWakeTimer"
         /\ \A j \in 1..(i - 1) : last.ops[j] # "clearWakeTimer"
    /\ (WakeWrites # {} /\ ~wakeActive) => DOMAIN timers = {}

\* Branch B ran in Armed: the assignment, then the cancellation of a pending timeout.
C10_Witness ==
  /\ last.ev = "onresult"
  /\ last.ops = <<"appendTranscript", "aiInterpret", "wakeActive=false",
                  "clearWakeTimer", "clearTimeout", "recognition.stop">>
  /\ LastUtterance = ScrollDownPlease

\* C11: a result that is not final is never acted upon: its handler makes no
\* call and no assignment, so nothing is dispatched, the wake state, the
\* timeout and its handle stay as they are and the recognition session is not
\* stopped; whatever is dispatched, armed or reset is the work of a final result.
C11_InterimResultIgnored ==
  [][/\ (last'.ev = "onresult" /\ ~last'.final) =>
          /\ last'.ops = <<>>
          /\ UNCHANGED <<listening, recState, wakeActive, wakeTimer, timers,
                         nextTimerId, sens, dispatched, inflight>>
     /\ (last'.ev = "onresult" /\ last'.ops # <<>>) => last'.final]_vars

\* An interim result arrived in state Armed, in a running session, with the
\* timeout counting down, and was passed over.
C11_Witness ==
  /\ last.ev = "onresult"
  /\ ~last.final
  /\ last.wasActive
  /\ wakeActive
  /\ recState = "active"
  /\ \E id \in DOMAIN timers : timers[id] < WakeTimeoutSecs
  /\ dispatched = <<>>

\* The Levenshtein distance of a and b, by its recurrence on the first letters.
RECURSIVE Levenshtein(_, _)
Levenshtein(a, b) ==
  IF a = <<>> THEN Len(b)
  ELSE IF b = <<>> THEN Len(a)
  ELSE IF Head(a) = Head(b) THEN Levenshtein(Tail(a), Tail(b))
  ELSE 1 + Min2(Levenshtein(Tail(a), Tail(b)),
                Min2(Levenshtein(Tail(a), b), Levenshtein(a, Tail(b))))

\* C12: for all strings s, t and every maxD >= 0, editDistanceAtMost returns
\* the Levenshtein distance of s and t, or maxD + 1 when that distance exceeds
\* maxD; so a result of at most maxD is the exact distance, and the distance
\* of a string to itself is 0.
C12_DistanceExactOrOverBound ==
  (probe.fn = "editDistanceAtMost" /\ probe.done) =>
    With(Levenshtein(probe.s, probe.t), LAMBDA d :
      /\ probe.out = d \/ (probe.out = probe.maxD + 1 /\ d > probe.maxD)
      /\ probe.out <= probe.maxD => probe.out = d
      /\ d <= probe.maxD => probe.out = d
      /\ probe.s = probe.t => probe.out = 0)

\* The early exit: strings of equal length whose distance is more than
\* maxD + 1, answered with maxD + 1.
C12_Witness ==
  /\ probe.fn = "editDistanceAtMost"
  /\ probe.done
  /\ Len(probe.s) = Len(probe.t)
  /\ probe.out = probe.maxD + 1
  /\ Levenshtein(probe.s, probe.t) > probe.out

\* C13: when the lengths of s and t differ by more than maxD,
\* editDistanceAtMost returns exactly maxD + 1, and it has filled in no row of
\* dp when it returns.
C13_LengthTestRejects ==
  (probe.fn = "editDistanceAtMost" /\ probe.done
     /\ Abs(Len(probe.s) - Len(probe.t)) > probe.maxD) =>
    /\ probe.out = probe.maxD + 1
    /\ probe.rows = 0

\* "" against a string of three letters with maxD = 1: rejected on the lengths.
C13_Witness ==
  /\ probe.fn = "editDistanceAtMost"
  /\ probe.done
  /\ probe.s = <<>>
  /\ Len(probe.t) = 3
  /\ probe.maxD = 1
  /\ probe.out = 2
  /\ probe.rows = 0

\* The variant v is in lower at the (0-based) position i, letter for letter.
OccursAt(lower, v, i) ==
  /\ i + Len(v) <= Len(lower)
  /\ \A j \in 1..Len(v) : lower[i + j] = v[j]

\* The exact occurrences in lower: <<i, k>> for the k-th variant at position i.
ExactHits(lower) ==
  {h \in (0..Len(lower)) \X DOMAIN BASE_WAKE_VARIANTS :
     OccursAt(lower, BASE_WAKE_VARIANTS[h[2]], h[1])}

\* The first hit of H by position, then by declaration / by declaration, then
\* by position, as the value wakeMatches returns.
FirstByPosition(H) ==
  LET i0 == MinOf({h[1] : h \in H})
      k0 == MinOf({h[2] : h \in {g \in H : g[1] = i0}})
  IN  [found |-> TRUE, index |-> i0, match |-> BASE_WAKE_VARIANTS[k0]]

FirstByVariant(H) ==
  LET k0 == MinOf({h[2] : h \in H})
      i0 == MinOf({h[1] : h \in {g \in H : g[2] = k0}})
  IN  [found |-> TRUE, index |-> i0, match |-> BASE_WAKE_VARIANTS[k0]]

HeyCat == <<"h", "e", "y", " ", "c", "a", "t">>
HeyCats == <<"h", "e", "y", " ", "c", "a", "t", "s">>
LazyCat == <<"l", "a", "z", "y", " ", "c", "a", "t">>
LazyCut == <<"l", "a", "z", "y", " ", "c", "u", "t">>

\* C14: when a variant occurs in the case-folded text, wakeMatches returns the
\* occurrence with the smallest index, among the variants at that index the
\* one declared first, by the fast path, and the same for every sensitivity.
C14_ExactPathSmallestIndex ==
  (probe.fn = "wakeMatches" /\ probe.done) =>
    With(ExactHits(toLowerCase(probe.text)), LAMBDA H :
      H # {} =>
        /\ probe.out = FirstByPosition(H)
        /\ probe.path = "exact"
        /\ \A y \in Sensitivities : wakeMatches(probe.text, y) = probe.out)

\* "he got hey cat": the variant declared third is returned, because it
\* starts before the one declared first.
C14_Witness ==
  /\ probe.fn = "wakeMatches"
  /\ probe.done
  /\ probe.out = [found |-> TRUE, index |-> 0, match |-> BASE_WAKE_VARIANTS[3]]
  /\ OccursAt(probe.text, BASE_WAKE_VARIANTS[1], 7)

\* "hey cats": two variants start at 0, the one declared first is returned.
C14_WitnessTie ==
  /\ probe.fn = "wakeMatches"
  /\ probe.done
  /\ probe.text = HeyCats
  /\ probe.out = [found |-> TRUE, index |-> 0, match |-> HeyCat]

\* C15: for every variant v, wakeMatches(v, Default) returns a match at index
\* 0 whose matched variant is v itself.
C15_VariantMatchesItself ==
  (probe.fn = "wakeMatches" /\ probe.done /\ probe.sensitivity = 1
     /\ probe.text \in Range(BASE_WAKE_VARIANTS)) =>
    probe.out = [found |-> TRUE, index |-> 0, match |-> probe.text]

\* a can be turned into b with at most d insertions, deletions and
\* substitutions of one letter.
RECURSIVE WithinEdits(_, _, _)
WithinEdits(a, b, d) ==
  IF a = <<>> THEN Len(b) <= d
  ELSE IF b = <<>> THEN Len(a) <= d
  ELSE IF Head(a) = Head(b) THEN WithinEdits(Tail(a), Tail(b), d)
  ELSE /\ d > 0
       /\ \/ WithinEdits(Tail(a), Tail(b), d - 1)
          \/ WithinEdits(Tail(a), b, d - 1)
          \/ WithinEdits(a, Tail(b), d - 1)

\* The first 40 characters of lower, and in them the window of at most n
\* characters that starts at the (0-based) position i.
First40(lower) == SubSeq(lower, 1, Min2(40, Len(lower)))
WindowAt(w, i, n) == SubSeq(w, i + 1, Min2(i + n, Len(w)))

\* The windows of w within d edits of a variant: <<i, k>> for the window at i
\* of the k-th variant's length, i from 0 to the last position a whole window
\* fits at (0 when w is shorter than the variant).
FuzzyHits(w, d) ==
  {h \in (0..Len(w)) \X DOMAIN BASE_WAKE_VARIANTS :
     /\ h[1] <= Max2(0, Len(w) - Len(BASE_WAKE_VARIANTS[h[2]]))
     /\ WithinEdits(WindowAt(w, h[1], Len(BASE_WAKE_VARIANTS[h[2]])),
                    BASE_WAKE_VARIANTS[h[2]], d)}

\* Strict 1, Default 2, Loose 3.
AllowedEdits == (0 :> 1) @@ (1 :> 2) @@ (2 :> 3)

\* C16: when no variant occurs in the text, wakeMatches looks at the first 40
\* characters only: of the windows there that are within 1 (Strict), 2
\* (Default) or 3 (Loose) edits of a variant it returns the one of the variant
\* declared first, and of that variant's windows the leftmost; when there is
\* none it returns no match.
C16_FuzzyPathFirstWithinBound ==
  (probe.fn = "wakeMatches" /\ probe.done) =>
    With(toLowerCase(probe.text), LAMBDA lower :
      ExactHits(lower) = {} =>
        With(FuzzyHits(First40(lower), AllowedEdits[probe.sensitivity]), LAMBDA H :
          IF H = {}
          THEN probe.out = NoMatch /\ probe.path = "none"
          ELSE probe.out = FirstByVariant(H) /\ probe.path = "fuzzy"))

\* A text of 44 characters that ends in "hay cat": one edit from "hey cat",
\* but past the first 40 characters, so there is no match at Strict.
C16_Witness ==
  /\ probe.fn = "wakeMatches"
  /\ probe.done
  /\ probe.sensitivity = 0
  /\ Len(probe.text) = 44
  /\ WithinEdits(SubSeq(probe.text, 38, 44), HeyCat, 1)
  /\ probe.out = NoMatch

\* "hey kut xx hay cat" at Strict: the window at 0 is one edit from "hey cut",
\* and the match is "hey cat" at 11, the variant declared first.
C16_WitnessOrder ==
  /\ probe.fn = "wakeMatches"
  /\ probe.done
  /\ probe.sensitivity = 0
  /\ WithinEdits(WindowAt(probe.text, 0, 7), BASE_WAKE_VARIANTS[4], 1)
  /\ probe.out = [found |-> TRUE, index |-> 11, match |-> HeyCat]

\* C17, as claimed: for "lazy cut" at Default no variant occurs in the text,
\* the match comes from the fuzzy path and is "lazy cat", within 2 edits, and
\* the remainder is empty.
C17_LazyCutByFuzzyPath ==
  (probe.fn = "stripAfterWake" /\ probe.done /\ probe.text = LazyCut
     /\ probe.sensitivity = 1) =>
    /\ ExactHits(probe.text) = {}
    /\ probe.path = "fuzzy"
    /\ probe.info = [found |-> TRUE, index |-> 0, match |-> LazyCat]
    /\ WithinEdits(probe.text, LazyCat, 2)
    /\ probe.out = [found |-> TRUE, text |-> <<>>]

\* C17, amended: for "lazy cut" at Default the fast path finds the declared
\* variant "lazy cut" at index 0 and returns it, the fuzzy path is not
\* reached (it would have matched "lazy cat", which is within 2 edits), and
\* the remainder is empty.
C17_LazyCutByExactPath ==
  (probe.fn = "stripAfterWake" /\ probe.done /\ probe.text = LazyCut
     /\ probe.sensitivity = 1) =>
    /\ OccursAt(probe.text, LazyCut, 0)
    /\ probe.path = "exact"
    /\ probe.info = [found |-> TRUE, index |-> 0, match |-> LazyCut]
    /\ WithinEdits(probe.text, LazyCat, 2)
    /\ probe.out = [found |-> TRUE, text |-> <<>>]

\* stripAfterWake("lazy cut", Default) has returned the empty remainder.
C17_Witness ==
  /\ probe.fn = "stripAfterWake"
  /\ probe.done
  /\ probe.text = LazyCut
  /\ probe.sensitivity = 1
  /\ probe.path = "exact"
  /\ probe.out = [found |-> TRUE, text |-> <<>>]

\* C18: stripAfterWake returns null exactly when wakeMatches finds no match;
\* otherwise it returns the text after position index + length of the matched
\* variant, trimmed; when nothing but blanks follows the match that is the
\* empty string, a value different from null.
C18_RemainderOrNull ==
  (probe.fn = "stripAfterWake" /\ probe.done) =>
    /\ probe.out = NoRemainder <=> ~probe.info.found
    /\ probe.out.found <=> probe.info.found
    /\ probe.info.found =>
         With(SubSeq(probe.text, probe.info.index + Len(probe.info.match) + 1,
                     Len(probe.text)), LAMBDA rest :
           /\ IsTrimOf(probe.out.text, rest)
           /\ Blank(rest) => probe.out = [found |-> TRUE, text |-> <<>>]
           /\ probe.out # NoRemainder)

\* "hey cat" and three blanks: a match with the empty remainder.
C18_Witness ==
  /\ probe.fn = "stripAfterWake"
  /\ probe.done
  /\ Len(probe.text) = 10
  /\ probe.info = [found |-> TRUE, index |-> 0, match |-> HeyCat]
  /\ probe.out = [found |-> TRUE, text |-> <<>>]

\* t without its leading and trailing white space.
Trimmed(t) ==
  CHOOSE u \in {SubSeq(t, a, b) : a \in 1..(Len(t) + 1), b \in 0..Len(t)} :
    IsTrimOf(u, t)

\* C19: the selection drops the blank alternatives; of the others (trimmed) it
\* returns the first, in the order given, in which wakeMatches finds a match
\* at the current sensitivity; when there is none it returns the longest by
\* the number of characters, and of several longest the one ranked first.
C19_FirstWithWakeElseLongest ==
  (probe.fn = "chosen" /\ probe.done) =>
    LET N    == {i \in 1..Len(probe.res) : ~Blank(probe.res[i])}
        W    == {i \in N : wakeMatches(toLowerCase(Trimmed(probe.res[i])),
                                        probe.sensitivity).found}
        top  == MaxOf({Len(Trimmed(probe.res[i])) : i \in N})
        L    == {i \in N : Len(Trimmed(probe.res[i])) = top}
    IN  /\ Len(probe.alts) = Cardinality(N)
        /\ \A i \in 1..Len(probe.alts) : ~Blank(probe.alts[i])
        /\ N = {} => probe.chosen = <<>>
        /\ (N # {} /\ W # {}) => probe.chosen = Trimmed(probe.res[MinOf(W)])
        /\ (N # {} /\ W = {}) => probe.chosen = Trimmed(probe.res[MinOf(L)])

\* Three alternatives without wake phrase, the first two the longest: the
\* first is chosen.
C19_Witness ==
  /\ probe.fn = "chosen"
  /\ probe.done
  /\ Len(probe.alts) = 3
  /\ Len(probe.alts[1]) = Len(probe.alts[2])
  /\ probe.alts[1] # probe.alts[2]
  /\ Len(probe.alts[3]) < Len(probe.alts[1])
  /\ probe.chosen = probe.alts[1]
  /\ \A i \in 1..3 : ~wakeMatches(probe.alts[i], probe.sensitivity).found

\* The wake phrase only in the second alternative, which is the shorter: it
\* is chosen over the longer first one.
C19_WitnessWake ==
  /\ probe.fn = "chosen"
  /\ probe.done
  /\ Len(probe.alts) = 2
  /\ Len(probe.alts[2]) < Len(probe.alts[1])
  /\ probe.chosen = probe.alts[2]

\* ---------------------------------------------------------------- C20
\* C20: when the interpreter's output, the code fences taken out and the ends
\* trimmed, is not JSON, the parsed command is the stand-in with command
\* "noop", no arguments, confirmation "none" and a note that the output could
\* not be parsed; the catch clause of aiInterpret is not needed, the stand-in
\* goes to the executor, and the executor answers once, with status "noop"
\* and not "error", which the transcript shows as an unsupported command.
C20_UnparseableBecomesNoop ==
  (probe.fn = "aiInterpret" /\ probe.done /\ JSONparse(cleanFences(probe.raw)).thrown) =>
    /\ Get(probe.out.parsed, CommandKey) = JStr(Noop)
    /\ Get(probe.out.parsed, ArgsKey) = JObj(<<>>, <<>>)
    /\ Get(probe.out.parsed, ConfirmationKey) = JStr(None)
    /\ Get(probe.out.parsed, ErrorKey) = JStr(CouldNotParse)
    /\ probe.out.route = "executor"
    /\ ~probe.out.run.thrown
    /\ Len(probe.out.run.responses) = 1
    /\ probe.out.run.responses[1].status = "noop"
    /\ probe.out.run.effects = <<>>
    /\ probe.out.ops = <<"appendTranscript:parsed", "sendMessage",
                         "appendTranscript:unsupported">>

\* The interpreter answered in prose; the executor has answered "noop".
C20_Witness ==
  /\ probe.fn = "aiInterpret"
  /\ probe.done
  /\ probe.raw = <<"I", " ", "c", "a", "n", "n", "o", "t", " ", "h", "e", "l", "p", " ", "w", "i", "t", "h", " ", "t", "h", "a", "t">>
  /\ Get(probe.out.parsed, ErrorKey) = JStr(CouldNotParse)
  /\ probe.out.run.responses # <<>>
  /\ probe.out.run.responses[1].status = "noop"

\* JSON between fences with prose around them: not JSON once the fences are
\* out, so the scroll command in it is not run.
C20_WitnessProse ==
  /\ probe.fn = "aiInterpret"
  /\ probe.done
  /\ Len(probe.raw) > 40
  /\ SubSeq(probe.raw, 1, 5) = <<"S", "u", "r", "e", "!">>
  /\ Get(probe.out.parsed, CommandKey) = JStr(Noop)

\* ---------------------------------------------------------------- C21
\* An object with a command that is a string, arguments that are an object
\* and a confirmation that is a string.
IsEnvelope(v) ==
  /\ v.t = "obj"
  /\ Get(v, CommandKey).t = "str"
  /\ Get(v, ArgsKey).t = "obj"
  /\ Get(v, ConfirmationKey).t = "str"

\* The stand-in for output that could not be read: command "noop", no
\* arguments, confirmation "none" and an error note.
IsSentinel(v) ==
  /\ v.t = "obj"
  /\ Get(v, CommandKey) = JStr(Noop)
  /\ Get(v, ArgsKey) = JObj(<<>>, <<>>)
  /\ Get(v, ConfirmationKey) = JStr(None)
  /\ Get(v, ErrorKey).t = "str"

\* C21: whatever the interpreter's output, cleaning and parsing it throws
\* nothing, and what aiInterpret goes on with is either an object with
\* command, args and confirmation or the noop stand-in; output that is JSON
\* but no such object (null, a number, a string, an object without command)
\* becomes the stand-in.
C21_EnvelopeOrSentinel ==
  (probe.fn = "aiInterpret" /\ probe.done) =>
    /\ ~parseOutput(probe.raw).thrown
    /\ IsEnvelope(probe.out.parsed) \/ IsSentinel(probe.out.parsed)

\* ---------------------------------------------------------------- C22
StartsWith(t, p) == Len(t) >= Len(p) /\ SubSeq(t, 1, Len(p)) = p
EndsWith(t, p) == Len(t) >= Len(p) /\ SubSeq(t, Len(t) - Len(p) + 1, Len(t)) = p

\* The text between the fences: raw without an opening fence (with or without
\* the word json after it) at its start and a closing fence at its end; raw
\* itself when it is not in fences.
Unwrapped(raw) ==
  LET t    == trim(raw)
      body == IF StartsWith(toLowerCase(t), FenceJson) THEN SubSeq(t, 8, Len(t))
              ELSE IF StartsWith(t, Fence) THEN SubSeq(t, 4, Len(t))
              ELSE t
  IN  trim(IF EndsWith(body, Fence) THEN SubSeq(body, 1, Len(body) - 3) ELSE body)

\* C22: when the interpreter's output, taken out of its code fences if it is
\* in fences, is the JSON text of an object with command, args and
\* confirmation, the parsed command is exactly the object that text denotes:
\* every value in it, the strings too, is as the text has it.
C22_ConformantPassedUnchanged ==
  (/\ probe.fn = "aiInterpret"
   /\ probe.done
   /\ ~JSONparse(Unwrapped(probe.raw)).thrown
   /\ IsEnvelope(JSONparse(Unwrapped(probe.raw)).v))
  => probe.out.parsed = JSONparse(Unwrapped(probe.raw)).v

\* ---------------------------------------------------------------- C23
\* The names the dispatcher knows.
RecognizedNames == {OpenTab, Scroll, SearchWeb, ClickUi, Summarize, RewriteSelection}

Fly == <<"f", "l", "y">>

\* C23: an object with command, args and confirmation whose command is, in
\* whatever letter case, none of the six names the dispatcher knows goes to
\* the executor, which neither throws nor acts on the browser and answers
\* exactly once: status "noop", not "error", with the name (in lower case, as
\* the executor compares it) in the message.
C23_UnknownNameIsNoop ==
  (/\ probe.fn = "aiInterpret"
   /\ probe.done
   /\ IsEnvelope(probe.out.parsed)
   /\ toLowerCase(Get(probe.out.parsed, CommandKey).s) \notin RecognizedNames)
  => /\ probe.out.route = "executor"
     /\ ~probe.out.run.thrown
     /\ probe.out.run.effects = <<>>
     /\ Len(probe.out.run.responses) = 1
     /\ probe.out.run.responses[1].status = "noop"
     /\ probe.out.run.responses[1].detail =
          JStr(toLowerCase(Get(probe.out.parsed, CommandKey).s))

\* The interpreter asked for "Fly": the executor has answered noop, naming fly.
C23_Witness ==
  /\ probe.fn = "aiInterpret"
  /\ probe.done
  /\ IsEnvelope(probe.out.parsed)
  /\ ~IsSentinel(probe.out.parsed)
  /\ Get(probe.out.parsed, CommandKey).s # Fly
  /\ probe.out.run.responses # <<>>
  /\ probe.out.run.responses[1].status = "noop"
  /\ probe.out.run.responses[1].detail = JStr(Fly)

\* ---------------------------------------------------------------- C24
\* The envelope with its command in lower case.
Lowered(v) == Put(v, CommandKey, JStr(toLowerCase(Get(v, CommandKey).s)))

\* C24: an envelope whose command is one of the six names in whatever letter
\* case goes where the name in lower case goes: rewrite_selection to the
\* rewrite handler (whose tone, when given, is a string), summarize to the
\* summarize handler, and the other four to the executor, which does for
\* them what it does for the envelope with the name in lower case.
C24_RoutingIgnoresCase ==
  (/\ probe.fn = "aiInterpret"
   /\ probe.done
   /\ IsEnvelope(probe.out.parsed)
   /\ toLowerCase(Get(probe.out.parsed, CommandKey).s) \in RecognizedNames)
  => LET name == toLowerCase(Get(probe.out.parsed, CommandKey).s)
         tone == Get(Get(probe.out.parsed, ArgsKey), ToneKey)
     IN  /\ (name = RewriteSelection /\ tone.t \in {"str", "undefined"})
              => probe.out.route = "rewrite"
         /\ name = Summarize => probe.out.route = "summarize"
         /\ name \notin {RewriteSelection, Summarize}
              => /\ probe.out.route = "executor"
                 /\ probe.out.run = onMessage(Lowered(probe.out.parsed), probe.env)

\* ---------------------------------------------------------------- C25
\* The calls of an executor among the steps of aiInterpret.
ExecutorCalls(ops) ==
  {i \in 1..Len(ops) : ops[i] \in {"handleRewriteSelectionFromPopup",
                                   "handleSummarizeFromPopup", "sendMessage"}}

\* C25: for every envelope aiInterpret calls exactly one executor, once:
\* the rewrite handler for rewrite_selection and the summarize handler for
\* summarize, without a message to the executor, and for every other name
\* the executor alone, which does not throw and calls sendResponse exactly
\* once, after which one line on the outcome is written.
C25_OneExecutorOneResult ==
  (probe.fn = "aiInterpret" /\ probe.done /\ IsEnvelope(probe.out.parsed)) =>
    LET name == Get(probe.out.parsed, CommandKey).s
    IN  /\ Cardinality(ExecutorCalls(probe.out.ops)) = 1
        /\ name = RewriteSelection
             => /\ probe.out.route = "rewrite"
                /\ probe.out.run = NotRun
        /\ name = Summarize
             => /\ probe.out.route = "summarize"
                /\ probe.out.run = NotRun
        /\ name \notin {RewriteSelection, Summarize}
             => /\ probe.out.route = "executor"
                /\ ~probe.out.run.thrown
                /\ Len(probe.out.run.responses) = 1
                /\ Cardinality({i \in 1..Len(probe.out.ops) :
                      probe.out.ops[i] \in {"appendTranscript:executed",
                                            "appendTranscript:unsupported",
                                            "appendTranscript:failed"}}) = 1

\* ---------------------------------------------------------------- C26
\* The action the answer names has taken place: a tab was opened, or the
\* injected script was run in the page and did its work.
Performed(r, run, env) ==
  CASE r.what \in {"opened_tab", "search_google_fallback"} ->
         \E i \in 1..Len(run.effects) : run.effects[i] = "tabs.create"
    [] r.what \in {"scrolled", "search_in_page", "clicked"} ->
         /\ \E i \in 1..Len(run.effects) : run.effects[i] = "scripting.executeScript"
         /\ env.tab
         /\ env.script
    [] OTHER -> FALSE

\* C26: the executor answers "ok" only when the action it names has taken
\* place; when the page or tab action did not happen (the injected script
\* did not run, there is no tab) the status is not "ok".
C26_OkOnlyWhenPerformed ==
  (probe.fn = "aiInterpret" /\ probe.done) =>
    \A i \in 1..Len(probe.out.run.responses) :
      probe.out.run.responses[i].status = "ok"
        => Performed(probe.out.run.responses[i], probe.out.run, probe.env)

\* ---------------------------------------------------------------- C27
\* The command click_ui with no arguments has been handled.
ClickWithoutText ==
  /\ probe.fn = "aiInterpret"
  /\ probe.done
  /\ IsEnvelope(probe.out.parsed)
  /\ Get(probe.out.parsed, CommandKey) = JStr(ClickUi)
  /\ Get(probe.out.parsed, ArgsKey) = JObj(<<>>, <<>>)

\* C27, as stated: click_ui without a text argument is answered with status
\* "error" and the reason "missing_text".
C27_MissingTextReason ==
  ClickWithoutText =>
    /\ Len(probe.out.run.responses) = 1
    /\ probe.out.run.responses[1].status = "error"
    /\ probe.out.run.responses[1].what = "missing_text"

\* C27, amended: click_ui without a text argument goes to the executor once;
\* the executor runs no script in the page and answers once, with status
\* "error" and the message "Missing text or no active tab", whether there is
\* an active tab or not; the popup writes one failure line, sends no second
\* message, and the wake state stays at rest with no timeout pending.
C27_MissingTextIsError ==
  ClickWithoutText =>
    /\ probe.out.route = "executor"
    /\ Cardinality(ExecutorCalls(probe.out.ops)) = 1
    /\ ~probe.out.run.thrown
    /\ Len(probe.out.run.responses) = 1
    /\ probe.out.run.responses[1].status = "error"
    /\ probe.out.run.responses[1].what = "Missing text or no active tab"
    /\ \A i \in 1..Len(probe.out.run.effects) :
         probe.out.run.effects[i] # "scripting.executeScript"
    /\ probe.out.ops[Len(probe.out.ops)] = "appendTranscript:failed"
    /\ ~wakeActive
    /\ wakeTimer = NoTimer

\* click_ui without text, in a page with an active tab where the script
\* would have found its element: the executor has answered with the error.
C27_Witness ==
  /\ ClickWithoutText
  /\ probe.env.tab
  /\ probe.env.script
  /\ probe.out.run.responses # <<>>
  /\ probe.out.run.responses[1].status = "error"

\* ---------------------------------------------------------------- C28
\* The final result handled had one alternative, a wake phrase of the list.
BareVariantHeard ==
  /\ probe.fn = "onresult"
  /\ probe.done
  /\ \E k \in 1..Len(BASE_WAKE_VARIANTS) : probe.res = <<BASE_WAKE_VARIANTS[k]>>

\* C28: for every wake phrase of the list, from Idle and from Armed and at
\* every sensitivity, a final result whose only alternative is that phrase
\* calls aiInterpret with nothing and leaves the state Armed with one timeout
\* pending, the one wakeTimer names.
C28_EveryBareVariantArms ==
  BareVariantHeard =>
    /\ dispatched = <<>>
    /\ inflight = {}
    /\ wakeActive
    /\ wakeTimer # NoTimer
    /\ DOMAIN timers = {wakeTimer}

\* ---------------------------------------------------------------- C29
\* C29, as stated: in every reachable state where the wake state is Idle,
\* wakeTimer is null.
C29_IdleHandleNull == ~wakeActive => wakeTimer = NoTimer

\* C29, amended: in every reachable state where the wake state is Idle no
\* timeout is pending, and a handle still stored names a timeout that has
\* run; a step that leaves Armed sets wakeTimer to null, except the running
\* of the timeout itself, which leaves in wakeTimer the id of the timeout
\* that ran.
C29_IdleHasNoPendingTimeout ==
  /\ [](~wakeActive =>
          /\ DOMAIN timers = {}
          /\ wakeTimer # NoTimer => (wakeTimer \notin DOMAIN timers /\ wakeTimer < nextTimerId))
  /\ [][(wakeActive /\ ~wakeActive') =>
          IF last'.ev = "timeout"
          THEN wakeTimer' = wakeTimer /\ wakeTimer' = last'.id /\ wakeTimer' # NoTimer
          ELSE wakeTimer' = NoTimer]_vars

\* The timeout has run: the state is Idle, nothing is pending, and wakeTimer
\* still holds the id of the timeout that ran.
C29_Witness ==
  /\ last.ev = "timeout"
  /\ last.wasActive
  /\ ~wakeActive
  /\ timers = <<>>
  /\ wakeTimer = last.id
  /\ wakeTimer # NoTimer

\* ---------------------------------------------------------------- C30
\* C30: whatever final and interim results, timeouts, clicks and changes of
\* sensitivity have happened, every utterance aiInterpret was called with has
\* at least one character and neither starts nor ends with white space.
C30_DispatchedNotBlank ==
  \A i \in 1..Len(dispatched) :
    /\ dispatched[i] # <<>>
    /\ ~IsSpace(dispatched[i][1])
    /\ ~IsSpace(dispatched[i][Len(dispatched[i])])

\* Two commands were dispatched: one spoken without wake phrase while Armed,
\* then one after a wake phrase, from a result with blanks around it.
C30_Witness ==
  /\ Len(dispatched) = 2
  /\ dispatched[1] = ScrollDownPlease
  /\ dispatched[2] = OpenTheSite
  /\ last.ev = "onresult"
  /\ LastDispatched
  /\ ~last.wasActive


\* ---------------------------------------------------------------------------
\* Stopping and restarting by the toggle
\* ---------------------------------------------------------------------------

\* The wake state: the flag, the handle and the host's pending timeouts.
WakeState == <<wakeActive, wakeTimer, timers>>

\* The step is a click on the toggle that stops listening.
StopClick == listening /\ ~listening' /\ last'.ev = "click"

\* The step is a click on the toggle that starts listening.
StartClick == ~listening /\ listening' /\ last'.ev = "click"

\* C31: clicking the toggle to stop listening leaves the wake state and the
\* timeout unchanged: wakeActive keeps its value and a pending timeout stays
\* pending (with the time it has left); the end of the session that follows and
\* the click that starts listening again leave them unchanged too, so an Armed
\* state survives a stop/start within the timeout.
C31_StopLeavesWakeState ==
  [][(StopClick \/ StartClick \/ last'.ev = "onend")
       => WakeState' = WakeState]_vars

\* The toggle has just stopped listening while Armed: the flag is still set and
\* the timeout armWakeTimeout started is still pending.
C31_Witness ==
  /\ last.ev = "click"
  /\ ~listening
  /\ last.ops[Len(last.ops)] = "recognition.stop"
  /\ last.wasActive
  /\ wakeActive
  /\ wakeTimer # NoTimer
  /\ wakeTimer \in DOMAIN timers

\* Listening was stopped and has just been started again, the session is
\* running, and the state is still Armed with time left on the timeout.
C31_WitnessRestart ==
  /\ last.ev = "click"
  /\ listening
  /\ recState = "active"
  /\ wakeActive
  /\ wakeTimer \in DOMAIN timers
  /\ timers[wakeTimer] \in 1..(WakeTimeoutSecs - 1)

\* The timeout has just fired while listening is off and the session has ended.
C31_WitnessFiresWhileOff ==
  /\ last.ev = "timeout"
  /\ last.wasActive
  /\ ~listening
  /\ recState = "inactive"
  /\ ~wakeActive


\* The handler that ran last called recognition.start() while the session it
\* had started earlier had not ended (the call threw InvalidStateError).
StartedWhileActive ==
  \E i \in 1..Len(last.ops) : last.ops[i] = "throw:InvalidStateError"

\* C32: recognition.start() is never invoked while a recognition session is
\* still active (started and not yet ended), whatever the interleaving of toggle
\* clicks, recognition.stop() calls of the handlers and onend callbacks.
C32_StartOnlyAfterEnd == ~StartedWhileActive


\* ---------------------------------------------------------------------------
\* Sensitivity
\* ---------------------------------------------------------------------------

\* The sensitivities looser than s: Default and Loose for Strict (0), Loose for
\* Default (1), none for Loose (2).
Looser(s) == {y \in Sensitivities : y > s}

\* A call of wakeMatches has returned a match.
MatchReturned == probe.fn = "wakeMatches" /\ probe.done /\ probe.out.found

\* C33: wake detection is monotone in sensitivity: for every text, if
\* wakeMatches finds a match at Strict (max distance 1) it also finds one at
\* Default (2), and if it finds one at Default it also finds one at Loose (3).
C33_MonotoneInSensitivity ==
  MatchReturned
  => \A y \in Looser(probe.sensitivity) : wakeMatches(probe.text, y).found

\* wakeMatches has found a match at Strict by the fuzzy path (the text holds no
\* variant), so the looser sensitivities have a match to find again.
C33_Witness ==
  /\ MatchReturned
  /\ probe.sensitivity = 0
  /\ probe.path = "fuzzy"
  /\ Looser(probe.sensitivity) = {1, 2}

\* wakeMatches has found a match at Default for a text it finds none in at
\* Strict: the sensitivity decides, and only in one direction.
C33_WitnessDefaultOnly ==
  /\ MatchReturned
  /\ probe.sensitivity = 1
  /\ probe.path = "fuzzy"
  /\ ~wakeMatches(probe.text, 0).found

\* wakeMatches has returned no match at Default for a text it finds one in at
\* Loose.
C33_WitnessLooseOnly ==
  /\ probe.fn = "wakeMatches"
  /\ probe.done
  /\ probe.sensitivity = 1
  /\ ~probe.out.found
  /\ wakeMatches(probe.text, 2).found

=============================================================================
